---- MODULE Spec2Model ----
(***************************************************************************)
(* The canvas IPC protocol engine: one server (canvas/server.go) that      *)
(* dispatches newline-terminated JSON requests against the registered      *)
(* model, and the one-request-per-connection client (canvas client).       *)
(***************************************************************************)
EXTENDS Integers, Sequences, FiniteSets, TLC

\* ------------------------------------------------------------------ bounds
MaxConns == 2        \* connections a behaviour opens
MaxLines == 2        \* request lines written by raw peers, over all connections
MaxCalls == 1        \* client calls made one after the other by a controller

MaxInsts == 2        \* server values made for one id
MaxIdLen == 3        \* characters of a canvas id

Conns == 1..MaxConns
Callers == 1..MaxCalls
Insts == 1..MaxInsts

\* ------------------------------------------------------- protocol (codec)
MsgGetState == "get_state"
MsgGetView == "get_view"
MsgSendKey == "send_key"
MsgSendInput == "send_input"
MsgClose == "close"
MsgState == "state"
MsgView == "view"
MsgAck == "ack"
MsgError == "error"
MsgReady == "ready"
MsgUpdated == "updated"
MsgSelected == "selected"
MsgCancelled == "cancelled"

RequestTypes == {MsgGetState, MsgGetView, MsgSendKey, MsgSendInput, MsgClose}

\* A nil json.RawMessage: the payload is omitted on the wire.
NoPayload == [kind |-> "none"]

StatePayload(mode) == [kind |-> "state", mode |-> mode]
ViewPayload(content, ansi) == [kind |-> "view", content |-> content, ansi |-> ansi]
KeyPayload(key) == [kind |-> "key", key |-> key]
InputPayload(text) == [kind |-> "input", text |-> text]
ErrorPayload(code, message) == [kind |-> "error", code |-> code, message |-> message]

\* NewMessage: the envelope of a type and an (already marshalled) payload.
NewMessage(t, payload) == [type |-> t, payload |-> payload]

NoMsg == NewMessage("", NoPayload)

\* json.Encoder.Encode: one newline-terminated JSON object, written by one
\* Write call.  A wire line is either a JSON envelope or bytes that are not one.
Encode(m) == [json |-> TRUE, type |-> m.type, payload |-> m.payload]

Garbage == [json |-> FALSE, type |-> "", payload |-> NoPayload]

\* json.Unmarshal(line, &msg): fails on bytes that are no JSON envelope.
ParseErrText == "invalid character"

Unmarshal(line) ==
    IF line.json
    THEN [err |-> FALSE, msg |-> NewMessage(line.type, line.payload)]
    ELSE [err |-> TRUE, msg |-> NoMsg]

\* ---------------------------------------------------------------- models
\* A registered model is a value that satisfies some of the four capability
\* interfaces; the server's zero value is the nil model.
CapState == "state"
CapView == "view"
CapKey == "key"
CapInput == "input"

Nil == [id |-> 0, caps |-> {}]
StateOnly == [id |-> 1, caps |-> {CapState}]
Full == [id |-> 2, caps |-> {CapState, CapView, CapKey, CapInput}]
ViewKey == [id |-> 3, caps |-> {CapView, CapKey}]

Models == {Nil, StateOnly, Full, ViewKey}

\* How a call into model code (a capability or the close callback) ends.
Ret == [k |-> "ret", e |-> ""]
Fail(e) == [k |-> "err", e |-> e]
Panic == [k |-> "panic", e |-> ""]
NoCall == [k |-> "none", e |-> ""]

ErrMsgs == {"boom", "busy"}

\* ----------------------------------------------------------------- state
VARIABLES
    model,      \* s.model
    onClose,    \* s.onClose: "nil" or "fn"
    listener,   \* the listening endpoint: "open" | "closed"
    sockfile,   \* whether the socket file exists at address(id)
    done,       \* whether s.done is closed
    accept,     \* the accept loop: "off" | "on" | "exited"
    proc,       \* the server process: "up" | "crashed"
    peer,       \* peer[c]: the peer's end of connection c: "idle" | "open" | "closed"
    inq,        \* inq[c]: the lines the peer has written on c
    nread,      \* nread[c]: how many of them the connection task has read
    task,       \* task[c]: "none" | "read" | "snap" | "call" | "closed" | "panicked"
    msg,        \* msg[c]: the envelope being handled
    snap,       \* snap[c]: the handler's copies of s.model and s.onClose
    out,        \* out[c]: the Encode calls made on c's encoder, in order
    cpc,        \* cpc[c]: the client call on c: "idle" | "connected" | "sent" | "done"
    call,       \* call[c]: which client call
    res,        \* res[c]: what the client call returned
    file,       \* what the path address(id) names: "none" | "stale" | "s1" | ...
    inst,       \* inst[i]: the i-th server value made for the id
    dialed,     \* which listener the last dial of address(id) reached
    evret,      \* what the last SendEvent call returned
    rt,         \* an envelope put through encode and decode
    ids,        \* two canvas ids and the socket paths made for them
    wrap,       \* the program's Wrap call: its environment, position and result
    mu,         \* s.mu: the connections whose task holds the read lock
    tail,       \* tail[c]: bytes the peer wrote on c after its last newline
    ls,         \* a listing of the socket directory and what it reported
    hc          \* a send_key or send_input envelope and the handler call made for it

srvVars == <<model, onClose, listener, sockfile, done, accept, proc>>
connVars == <<peer, inq, nread, task, msg, snap, out>>
cliVars == <<cpc, call, res>>
extVars == <<wrap, mu, tail, ls, hc>>
auxVars == <<file, inst, dialed, evret, rt, ids, wrap, mu, tail, ls, hc>>
vars == <<model, onClose, listener, sockfile, done, accept, proc,
          peer, inq, nread, task, msg, snap, out, cpc, call, res,
          file, inst, dialed, evret, rt, ids, wrap, mu, tail, ls, hc>>

NoSnap == [model |-> Nil, onClose |-> "nil"]
NoRes == [ok |-> FALSE, err |-> "", code |-> "", message |-> "", val |-> NoPayload]

\* Nothing at the path, no server value made yet, no dial made yet.
NoFile == [kind |-> "none", of |-> 0]
NoInst == [st |-> "none", err |-> "", found |-> "", mk |-> "", rm |-> "", ln |-> ""]
NoDial == [kind |-> "none", of |-> 0]

\* No SendEvent call made, no envelope encoded, no address computed.
NoEvent == [ret |-> "none", type |-> ""]
NoRt == [stage |-> "none"]
NoIds == [stage |-> "none"]

\* Wrap not called, the lock free, no unterminated bytes, no listing made,
\* no handler call made.
NoWrap == [pc |-> "none"]
NoList == [stage |-> "none"]
NoHc == [stage |-> "none"]

ExtInit ==
    /\ wrap = NoWrap
    /\ mu = {}
    /\ tail = [c \in Conns |-> <<>>]
    /\ ls = NoList
    /\ hc = NoHc

\* The parts of the state that the server's request handling never touches.
AuxInit ==
    /\ file = NoFile
    /\ inst = [i \in Insts |-> NoInst]
    /\ dialed = NoDial
    /\ evret = NoEvent
    /\ rt = NoRt
    /\ ids = NoIds
    /\ ExtInit

\* NewServer returned: the endpoint is bound, the socket file exists, no
\* model and no callback are registered, the accept loop is not started.
SrvInit ==
    /\ model = Nil
    /\ onClose = "nil"
    /\ listener = "open"
    /\ sockfile = TRUE
    /\ done = FALSE
    /\ accept = "off"
    /\ proc = "up"
    /\ peer = [c \in Conns |-> "idle"]
    /\ inq = [c \in Conns |-> <<>>]
    /\ nread = [c \in Conns |-> 0]
    /\ task = [c \in Conns |-> "none"]
    /\ msg = [c \in Conns |-> NoMsg]
    /\ snap = [c \in Conns |-> NoSnap]
    /\ out = [c \in Conns |-> <<>>]
    /\ cpc = [c \in Conns |-> "idle"]
    /\ call = [c \in Conns |-> ""]
    /\ res = [c \in Conns |-> NoRes]

Init == SrvInit /\ AuxInit

\* ---------------------------------------------------------------- server
\* SetModel and OnClose take the write lock, which waits for the read lock to
\* be free.
SetModel(m) ==
    /\ proc = "up"
    /\ mu = {}
    /\ model' = m
    /\ UNCHANGED <<onClose, listener, sockfile, done, accept, proc>>
    /\ UNCHANGED connVars
    /\ UNCHANGED cliVars
    /\ UNCHANGED auxVars

OnClose(fn) ==
    /\ proc = "up"
    /\ mu = {}
    /\ fn # onClose
    /\ onClose' = fn
    /\ UNCHANGED <<model, listener, sockfile, done, accept, proc>>
    /\ UNCHANGED connVars
    /\ UNCHANGED cliVars
    /\ UNCHANGED auxVars

Start ==
    /\ proc = "up"
    /\ accept = "off"
    /\ accept' = "on"
    /\ UNCHANGED <<model, onClose, listener, sockfile, done, proc>>
    /\ UNCHANGED connVars
    /\ UNCHANGED cliVars
    /\ UNCHANGED auxVars

\* Stop, lines 106-108: the done channel is closed, the listener is closed and
\* the socket file is removed; the connections are not touched.
Stop_SignalOnly ==
    /\ proc = "up"
    /\ ~done
    /\ done' = TRUE
    /\ UNCHANGED <<model, onClose, listener, sockfile, accept, proc>>
    /\ UNCHANGED connVars
    /\ UNCHANGED cliVars
    /\ UNCHANGED auxVars

Stop_ClosesConns ==
    /\ proc = "up"
    /\ ~done
    /\ done' = TRUE
    /\ listener' = "closed"
    /\ sockfile' = FALSE
    /\ task' = [c \in Conns |-> IF task[c] = "none" THEN "none" ELSE "closed"]
    /\ UNCHANGED <<model, onClose, accept, proc>>
    /\ UNCHANGED <<peer, inq, nread, msg, snap, out>>
    /\ UNCHANGED cliVars
    /\ UNCHANGED auxVars

Stop ==
    /\ proc = "up"
    /\ ~done
    /\ done' = TRUE
    /\ listener' = "closed"
    /\ sockfile' = FALSE
    /\ UNCHANGED <<model, onClose, accept, proc>>
    /\ UNCHANGED connVars
    /\ UNCHANGED cliVars
    /\ UNCHANGED auxVars

\* acceptLoop: s.done is closed, so the loop returns.
AcceptExit ==
    /\ proc = "up"
    /\ accept = "on"
    /\ done
    /\ accept' = "exited"
    /\ UNCHANGED <<model, onClose, listener, sockfile, done, proc>>
    /\ UNCHANGED connVars
    /\ UNCHANGED cliVars
    /\ UNCHANGED auxVars

\* acceptLoop: Accept returns connection c, and its task is started.
Accept_Inline(c) ==
    /\ proc = "up"
    /\ accept = "on"
    /\ listener = "open"
    /\ peer[c] # "idle"
    /\ task[c] = "none"
    /\ \A d \in Conns \ {c} : task[d] \in {"none", "closed"}
    /\ task' = [task EXCEPT ![c] = "read"]
    /\ UNCHANGED srvVars
    /\ UNCHANGED <<peer, inq, nread, msg, snap, out>>
    /\ UNCHANGED cliVars
    /\ UNCHANGED auxVars

Accept(c) ==
    /\ proc = "up"
    /\ accept = "on"
    /\ listener = "open"
    /\ peer[c] # "idle"
    /\ task[c] = "none"
    /\ task' = [task EXCEPT ![c] = "read"]
    /\ UNCHANGED srvVars
    /\ UNCHANGED <<peer, inq, nread, msg, snap, out>>
    /\ UNCHANGED cliVars
    /\ UNCHANGED auxVars

\* One Encode call on the encoder that handleConnection made for connection
\* c: the whole line goes out on c in one Write.  The entry also records which
\* task made the call, which of its request lines it answers and how the model
\* code ended.  (A write to a peer that has gone fails; the error is dropped.)
Written_SharedEncoder(o, c, k, line, oc) ==
    [o EXCEPT ![1] = Append(@, [line |-> line, conn |-> c, seq |-> k, oc |-> oc])]

Written(o, c, k, line, oc) ==
    [o EXCEPT ![c] = Append(@, [line |-> line, conn |-> c, seq |-> k, oc |-> oc])]

\* handleConnection, line 170: after a parse error the loop continues.
AfterParseError_Return == "closed"

AfterParseError == "read"

\* handleMessage: the model a handler dispatches against is its own copy.
Dispatched_Registered(c) == model

Dispatched(c) == snap[c].model

sendError(code, message) == NewMessage(MsgError, ErrorPayload(code, message))

\* handleConnection: ReadBytes returns the next line.  A line that does not
\* decode is answered with parse_error and the loop goes on; one that does is
\* handed to handleMessage.
ReadLine(c) ==
    /\ proc = "up"
    /\ task[c] = "read"
    /\ nread[c] < Len(inq[c])
    /\ LET line == inq[c][nread[c] + 1]
           r == Unmarshal(line)
           n == [nread EXCEPT ![c] = @ + 1]
       IN /\ nread' = n
          /\ IF r.err
             THEN /\ out' = Written(out, c, n[c],
                                    Encode(sendError("parse_error", ParseErrText)), NoCall)
                  /\ task' = [task EXCEPT ![c] = AfterParseError]
                  /\ UNCHANGED msg
             ELSE /\ msg' = [msg EXCEPT ![c] = r.msg]
                  /\ task' = [task EXCEPT ![c] = "snap"]
                  /\ UNCHANGED out
    /\ UNCHANGED srvVars
    /\ UNCHANGED <<peer, inq, snap>>
    /\ UNCHANGED cliVars
    /\ UNCHANGED auxVars

\* handleConnection: ReadBytes fails (the peer closed its end), the task
\* returns and the deferred conn.Close() runs.  ReadBytes hands back, with the
\* error, the bytes it read after the last newline; they are dropped with it.
ReadFail_TailAsLine(c) ==
    /\ proc = "up"
    /\ task[c] = "read"
    /\ nread[c] = Len(inq[c])
    /\ peer[c] = "closed"
    /\ IF tail[c] = <<>>
       THEN /\ task' = [task EXCEPT ![c] = "closed"]
            /\ UNCHANGED <<msg, out, tail>>
       ELSE LET r == Unmarshal(tail[c][1])
            IN /\ tail' = [tail EXCEPT ![c] = <<>>]
               /\ IF r.err
                  THEN /\ out' = Written(out, c, nread[c],
                                         Encode(sendError("parse_error", ParseErrText)), NoCall)
                       /\ task' = [task EXCEPT ![c] = "closed"]
                       /\ UNCHANGED msg
                  ELSE /\ msg' = [msg EXCEPT ![c] = r.msg]
                       /\ task' = [task EXCEPT ![c] = "snap"]
                       /\ UNCHANGED out
    /\ UNCHANGED srvVars
    /\ UNCHANGED <<peer, inq, nread, snap>>
    /\ UNCHANGED cliVars
    /\ UNCHANGED <<file, inst, dialed, evret, rt, ids, wrap, mu, ls, hc>>

ReadFail_Retries(c) ==
    /\ proc = "up"
    /\ task[c] = "read"
    /\ nread[c] = Len(inq[c])
    /\ peer[c] = "closed"
    /\ UNCHANGED vars

ReadFail(c) ==
    /\ proc = "up"
    /\ task[c] = "read"
    /\ nread[c] = Len(inq[c])
    /\ peer[c] = "closed"
    /\ task' = [task EXCEPT ![c] = "closed"]
    /\ UNCHANGED srvVars
    /\ UNCHANGED <<peer, inq, nread, msg, snap, out>>
    /\ UNCHANGED cliVars
    /\ UNCHANGED auxVars

\* handleMessage, lines 178-181: the references are copied under the read lock.
Snapshot(c) ==
    /\ proc = "up"
    /\ task[c] = "snap"
    /\ snap' = [snap EXCEPT ![c] = [model |-> model, onClose |-> onClose]]
    /\ task' = [task EXCEPT ![c] = "call"]
    /\ UNCHANGED srvVars
    /\ UNCHANGED <<peer, inq, nread, msg, out>>
    /\ UNCHANGED cliVars
    /\ UNCHANGED auxVars

\* The type assertions model.(StateProvider), model.(ViewProvider),
\* model.(KeyHandler), model.(InputHandler): false for the nil model.
HasCap_StateForAll(m, cap) == CapState \in m.caps

HasCap(m, cap) == cap \in m.caps

\* Bubble Tea programs: each has View(), and some of the four capabilities.
Plain == [id |-> 4, caps |-> {}]
TeaModels == {Plain, StateOnly, Full, ViewKey}

\* The tea.Model method View() of a program, a string of its own.
View(w) == 10 + w.id

\* The value &BubbleTeaAdapter{server, model}: its method set is Init, Update,
\* View, CanvasState and CanvasView, whatever the wrapped program implements;
\* the program it wraps is the field a.model, kept in wrap.model.
Adapter == [id |-> 9, caps |-> {CapState, CapView}]

\* What the model's code returns: the snapshot and the rendered view of that
\* model value.  The adapter hands CanvasState to the wrapped program when it
\* is a StateProvider and returns the zero StatePayload otherwise; its
\* CanvasView returns the wrapped program's View().
CanvasState(m) ==
    IF m = Adapter
    THEN IF HasCap(wrap.model, CapState) THEN StatePayload(wrap.model.id) ELSE StatePayload(0)
    ELSE StatePayload(m.id)

CanvasView(m) == IF m = Adapter THEN View(wrap.model) ELSE m.id

\* The ways the model code that handleMessage calls for (t, m, cb) can end: a
\* provider returns or panics, a handler returns nil or an error or panics, the
\* close callback returns or panics; nothing is called when the capability or
\* the callback is missing.
Outcomes(t, m, cb) ==
    CASE t = MsgGetState /\ HasCap(m, CapState) -> {Ret, Panic}
      [] t = MsgGetView /\ HasCap(m, CapView) -> {Ret, Panic}
      [] t = MsgSendKey /\ HasCap(m, CapKey) -> {Ret, Panic} \cup {Fail(e) : e \in ErrMsgs}
      [] t = MsgSendInput /\ HasCap(m, CapInput) -> {Ret, Panic} \cup {Fail(e) : e \in ErrMsgs}
      [] t = MsgClose /\ cb # "nil" -> {Ret, Panic}
      [] OTHER -> {NoCall}

\* handleMessage, lines 206-211 and 220-225: a handler's error becomes an error
\* response carrying err.Error(); otherwise the request is acknowledged.
HandlerResponse_AckAnyway(code, oc) == NewMessage(MsgAck, NoPayload)

HandlerResponse(code, oc) ==
    IF oc.k = "err" THEN sendError(code, oc.e) ELSE NewMessage(MsgAck, NoPayload)

\* handleMessage, lines 230-235: close is acknowledged whether or not a
\* callback was there to call.
CloseResponse_NeedsCallback(oc) ==
    IF oc = NoCall
    THEN sendError("not_supported", "no close callback")
    ELSE NewMessage(MsgAck, NoPayload)

CloseResponse(oc) == NewMessage(MsgAck, NoPayload)

\* handleMessage, lines 237-238: the default case.
UnknownResponse_Ack(rq) == NewMessage(MsgAck, NoPayload)

UnknownResponse(rq) == sendError("unknown_type", "unknown message type: " \o rq.type)

\* handleMessage, the switch: the response to envelope rq for the copied model
\* m, when the model code it calls ends as oc (not a panic).
handleMessage(rq, m, oc) ==
    CASE rq.type = MsgGetState ->
            IF HasCap(m, CapState)
            THEN NewMessage(MsgState, CanvasState(m))
            ELSE sendError("not_supported", "model does not implement StateProvider")
      [] rq.type = MsgGetView ->
            IF HasCap(m, CapView)
            THEN NewMessage(MsgView, ViewPayload(CanvasView(m), TRUE))
            ELSE sendError("not_supported", "model does not implement ViewProvider")
      [] rq.type = MsgSendKey ->
            IF HasCap(m, CapKey)
            THEN HandlerResponse("key_error", oc)
            ELSE sendError("not_supported", "model does not implement KeyHandler")
      [] rq.type = MsgSendInput ->
            IF HasCap(m, CapInput)
            THEN HandlerResponse("input_error", oc)
            ELSE sendError("not_supported", "model does not implement InputHandler")
      [] rq.type = MsgClose -> CloseResponse(oc)
      [] OTHER -> UnknownResponse(rq)

\* handleMessage after the copy: the capability check, the call into model
\* code and the response.  A panic in model code is not recovered anywhere, so
\* it ends the process: every task stops and the kernel closes every socket,
\* while the socket file stays behind.
Handle(c) ==
    /\ proc = "up"
    /\ task[c] = "call"
    /\ \E oc \in Outcomes(msg[c].type, Dispatched(c), snap[c].onClose) :
         IF oc = Panic
         THEN /\ proc' = "crashed"
              /\ listener' = "closed"
              /\ task' = [task EXCEPT ![c] = "panicked"]
              /\ UNCHANGED <<model, onClose, sockfile, done, accept>>
              /\ UNCHANGED <<peer, inq, nread, msg, snap, out>>
         ELSE /\ out' = Written(out, c, nread[c],
                                Encode(handleMessage(msg[c], Dispatched(c), oc)), oc)
              /\ task' = [task EXCEPT ![c] = "read"]
              /\ msg' = [msg EXCEPT ![c] = NoMsg]
              /\ snap' = [snap EXCEPT ![c] = NoSnap]
              /\ UNCHANGED srvVars
              /\ UNCHANGED <<peer, inq, nread>>
    /\ UNCHANGED cliVars
    /\ UNCHANGED auxVars

\* ------------------------------------------------------------- raw peers
\* A peer that speaks the wire protocol directly: it connects, writes any
\* lines, and closes.
Wire(t, p) == Encode(NewMessage(t, p))

RawLines ==
    {Garbage, Wire(MsgGetState, NoPayload), Wire(MsgGetView, NoPayload),
     Wire(MsgSendKey, KeyPayload("enter")), Wire(MsgSendInput, InputPayload("hi")),
     Wire(MsgClose, NoPayload), Wire(MsgAck, NoPayload)}

RECURSIVE SumLen(_, _)
SumLen(q, S) ==
    IF S = {} THEN 0
    ELSE LET c == CHOOSE x \in S : TRUE IN Len(q[c]) + SumLen(q, S \ {c})

RawDial(c) ==
    /\ proc = "up"
    /\ peer[c] = "idle"
    /\ listener = "open"
    /\ peer' = [peer EXCEPT ![c] = "open"]
    /\ UNCHANGED srvVars
    /\ UNCHANGED <<inq, nread, task, msg, snap, out>>
    /\ UNCHANGED cliVars
    /\ UNCHANGED auxVars

RawSend(c, line) ==
    /\ peer[c] = "open"
    /\ proc = "up"
    /\ SumLen(inq, Conns) < MaxLines
    /\ inq' = [inq EXCEPT ![c] = Append(@, line)]
    /\ UNCHANGED srvVars
    /\ UNCHANGED <<peer, nread, task, msg, snap, out>>
    /\ UNCHANGED cliVars
    /\ UNCHANGED auxVars

RawClose(c) ==
    /\ proc = "up"
    /\ peer[c] = "open"
    /\ peer' = [peer EXCEPT ![c] = "closed"]
    /\ UNCHANGED srvVars
    /\ UNCHANGED <<inq, nread, task, msg, snap, out>>
    /\ UNCHANGED cliVars
    /\ UNCHANGED auxVars

ServerNext ==
    \/ \E m \in Models : SetModel(m)
    \/ \E fn \in {"nil", "fn"} : OnClose(fn)
    \/ Start
    \/ \E c \in Conns : Accept(c)
    \/ \E c \in Conns : ReadLine(c)
    \/ \E c \in Conns : ReadFail(c)
    \/ \E c \in Conns : Snapshot(c)
    \/ \E c \in Conns : Handle(c)

Next ==
    \/ ServerNext
    \/ \E c \in Conns : RawDial(c)
    \/ \E c \in Conns, line \in RawLines : RawSend(c, line)
    \/ \E c \in Conns : RawClose(c)

Spec == Init /\ [][Next]_vars

\* A peer on one connection that writes envelopes of every catalogued type
\* that is no request, of no type at all, or a get_state request.
UnknownLines ==
    {Wire(MsgState, StatePayload(1)), Wire(MsgView, NoPayload), Wire(MsgAck, NoPayload),
     Wire(MsgError, ErrorPayload("failed", "busy")),
     Wire(MsgReady, NoPayload), Wire(MsgUpdated, NoPayload),
     Wire(MsgSelected, NoPayload), Wire(MsgCancelled, NoPayload),
     Wire("", NoPayload)}

TypeNext ==
    \/ ServerNext
    \/ \E c \in Callers : RawDial(c)
    \/ \E c \in Callers, line \in UnknownLines \cup {Wire(MsgGetState, NoPayload)} :
          RawSend(c, line)
    \/ \E c \in Callers : RawClose(c)

TypeSpec == Init /\ [][TypeNext]_vars

\* ---------------------------------------------------------------- client
CallKinds == {"state", "view", "key", "input", "close", "ping"}

\* The request envelope each call hands to send.
Request(kind) ==
    CASE kind \in {"state", "ping"} -> NewMessage(MsgGetState, NoPayload)
      [] kind = "view" -> NewMessage(MsgGetView, NoPayload)
      [] kind = "key" -> NewMessage(MsgSendKey, KeyPayload("enter"))
      [] kind = "input" -> NewMessage(MsgSendInput, InputPayload("hi"))
      [] OTHER -> NewMessage(MsgClose, NoPayload)

\* The zero value of each payload shape.
ZeroOf(kind) ==
    CASE kind = "state" -> StatePayload(0)
      [] kind = "view" -> ViewPayload(0, FALSE)
      [] OTHER -> ErrorPayload("", "")

\* Message.ParsePayload into a value of shape kind: nothing to do for an absent
\* payload; json.Unmarshal fills the fields the shapes share and skips the
\* rest, here all of them when the shapes differ.
ParsePayload(m, kind) ==
    IF m.payload = NoPayload THEN ZeroOf(kind)
    ELSE IF m.payload.kind = kind THEN m.payload
    ELSE ZeroOf(kind)

\* What send returns: a transport error, or the decoded response.
SendErr(e) == [err |-> e, resp |-> NoMsg]
SendOk(resp) == [err |-> "", resp |-> resp]

Transport(e) == [ok |-> FALSE, err |-> e, code |-> "", message |-> "", val |-> NoPayload]
Success(v) == [ok |-> TRUE, err |-> "", code |-> "", message |-> "", val |-> v]

\* fmt.Errorf("%s: %s", errPayload.Code, errPayload.Message)
ServerError(resp) ==
    LET p == ParsePayload(resp, "error")
    IN [ok |-> FALSE, err |-> "server", code |-> p.code, message |-> p.message,
        val |-> NoPayload]

GetState_NoErrorCheck(r) ==
    IF r.err # "" THEN Transport(r.err)
    ELSE Success(ParsePayload(r.resp, "state"))

GetState(r) ==
    IF r.err # "" THEN Transport(r.err)
    ELSE IF r.resp.type = MsgError THEN ServerError(r.resp)
    ELSE Success(ParsePayload(r.resp, "state"))

GetView(r) ==
    IF r.err # "" THEN Transport(r.err)
    ELSE IF r.resp.type = MsgError THEN ServerError(r.resp)
    ELSE Success(ParsePayload(r.resp, "view"))

SendKey(r) ==
    IF r.err # "" THEN Transport(r.err)
    ELSE IF r.resp.type = MsgError THEN ServerError(r.resp)
    ELSE Success(NoPayload)

SendInput(r) ==
    IF r.err # "" THEN Transport(r.err)
    ELSE IF r.resp.type = MsgError THEN ServerError(r.resp)
    ELSE Success(NoPayload)

\* Close returns send's error alone; the response is not looked at.
Close(r) ==
    IF r.err # "" THEN Transport(r.err) ELSE Success(NoPayload)

\* Ping: GetState returned no error.
Ping_DialOnly(r) ==
    IF r.err # "connect" THEN Success(NoPayload) ELSE Transport("")

Ping(r) ==
    IF GetState(r).ok THEN Success(NoPayload) ELSE Transport("")

Result(kind, r) ==
    CASE kind = "state" -> GetState(r)
      [] kind = "view" -> GetView(r)
      [] kind = "key" -> SendKey(r)
      [] kind = "input" -> SendInput(r)
      [] kind = "close" -> Close(r)
      [] OTHER -> Ping(r)

\* The server's end of connection c is gone: the process died, the listener
\* was closed before c was accepted, or c's task returned.
Reset(c) ==
    \/ proc = "crashed"
    \/ task[c] = "none" /\ listener = "closed"
    \/ task[c] = "closed"

\* A call returns: its result is set and the deferred conn.Close() has run.
Returned_LeavesOpen(c, r) ==
    /\ cpc' = [cpc EXCEPT ![c] = "done"]
    /\ res' = [res EXCEPT ![c] = Result(call[c], r)]
    /\ UNCHANGED peer

Returned(c, r) ==
    /\ cpc' = [cpc EXCEPT ![c] = "done"]
    /\ res' = [res EXCEPT ![c] = Result(call[c], r)]
    /\ peer' = [peer EXCEPT ![c] = "closed"]

\* send, line 117: net.DialTimeout.  With nothing listening at the address the
\* call returns a connect error and nothing has been written.
ClientDial(c, kind) ==
    /\ cpc[c] = "idle"
    /\ call' = [call EXCEPT ![c] = kind]
    /\ IF listener = "open"
       THEN /\ peer' = [peer EXCEPT ![c] = "open"]
            /\ cpc' = [cpc EXCEPT ![c] = "connected"]
            /\ UNCHANGED res
       ELSE /\ cpc' = [cpc EXCEPT ![c] = "done"]
            /\ res' = [res EXCEPT ![c] = Result(kind, SendErr("connect"))]
            /\ UNCHANGED peer
    /\ UNCHANGED srvVars
    /\ UNCHANGED <<inq, nread, task, msg, snap, out>>
    /\ UNCHANGED auxVars

\* send, lines 126-134: the one request line is written.
ClientWrite(c) ==
    /\ cpc[c] = "connected"
    /\ IF Reset(c)
       THEN /\ Returned(c, SendErr("send"))
            /\ UNCHANGED inq
       ELSE /\ inq' = [inq EXCEPT ![c] = Append(@, Encode(Request(call[c])))]
            /\ cpc' = [cpc EXCEPT ![c] = "sent"]
            /\ UNCHANGED <<res, peer>>
    /\ UNCHANGED srvVars
    /\ UNCHANGED <<nread, task, msg, snap, out, call>>
    /\ UNCHANGED auxVars

\* send, lines 137-148: ReadBytes returns the first complete line, which is
\* decoded.
ClientRead(c) ==
    /\ cpc[c] = "sent"
    /\ out[c] # <<>>
    /\ LET u == Unmarshal(out[c][1].line)
       IN Returned(c, IF u.err THEN SendErr("parse") ELSE SendOk(u.msg))
    /\ UNCHANGED srvVars
    /\ UNCHANGED <<inq, nread, task, msg, snap, out, call>>
    /\ UNCHANGED auxVars

\* send, lines 138-141: ReadBytes fails because the server's end is gone.
ClientReadFail(c) ==
    /\ cpc[c] = "sent"
    /\ out[c] = <<>>
    /\ Reset(c)
    /\ Returned(c, SendErr("read"))
    /\ UNCHANGED srvVars
    /\ UNCHANGED <<inq, nread, task, msg, snap, out, call>>
    /\ UNCHANGED auxVars

\* send, lines 123 and 138-141: the deadline set by SetDeadline passes before
\* a response line has arrived, and ReadBytes fails with a timeout.
ClientTimeout_NoDeadline(c) ==
    /\ FALSE
    /\ UNCHANGED vars

ClientTimeout(c) ==
    /\ cpc[c] = "sent"
    /\ out[c] = <<>>
    /\ Returned(c, SendErr("timeout"))
    /\ UNCHANGED srvVars
    /\ UNCHANGED <<inq, nread, task, msg, snap, out, call>>
    /\ UNCHANGED auxVars

ClientStep(c) ==
    \/ ClientWrite(c)
    \/ ClientRead(c)
    \/ ClientReadFail(c)
    \/ ClientTimeout(c)

\* A controller that makes calls of every kind against a server that may be
\* started, stopped or crashed at any point.
ClientNext ==
    \/ ServerNext
    \/ Stop
    \/ AcceptExit
    \/ \E c \in Callers, kind \in CallKinds : ClientDial(c, kind)
    \/ \E c \in Callers : ClientWrite(c)
    \/ \E c \in Callers : ClientRead(c)
    \/ \E c \in Callers : ClientReadFail(c)
    \/ \E c \in Callers : ClientTimeout(c)

ClientSpec == Init /\ [][ClientNext]_vars

\* The deadlines are timers: a call that is waiting does not wait for ever.
\* Nothing is assumed of the server's scheduling.
LiveClientSpec == ClientSpec /\ \A c \in Callers : WF_vars(ClientStep(c))

\* The accept loop and the connection tasks are goroutines: each one that can
\* take its next step takes it.
LiveStopSpec ==
    /\ ClientSpec
    /\ WF_vars(AcceptExit)
    /\ \A c \in Callers :
        /\ WF_vars(ClientStep(c))
        /\ WF_vars(ReadLine(c))
        /\ WF_vars(Snapshot(c))
        /\ WF_vars(Handle(c))

\* The accept loop and every connection task take their next step when they
\* can, a failing read included.
LiveTaskSpec ==
    /\ ClientSpec
    /\ \A c \in Callers :
        /\ WF_vars(ClientStep(c))
        /\ WF_vars(Accept(c))
        /\ WF_vars(ReadLine(c))
        /\ WF_vars(ReadFail(c))
        /\ WF_vars(Snapshot(c))
        /\ WF_vars(Handle(c))

\* Controllers that call GetState at the same time, one on each connection.
ConcNext ==
    \/ ServerNext
    \/ \E c \in Conns : ClientDial(c, "state")
    \/ \E c \in Conns : ClientWrite(c)
    \/ \E c \in Conns : ClientRead(c)
    \/ \E c \in Conns : ClientReadFail(c)
    \/ \E c \in Conns : ClientTimeout(c)

ConcSpec == Init /\ [][ConcNext]_vars

\* The client against any peer that listens at the socket path (a client can
\* be pointed at any socket, NewClientWithSocket): the peer answers the
\* request with any one line.
StubLines ==
    {Encode(NewMessage(MsgAck, NoPayload)),
     Encode(NewMessage(MsgState, StatePayload(1))),
     Encode(NewMessage(MsgView, ViewPayload(1, TRUE))),
     Encode(sendError("not_supported", "model does not implement KeyHandler")),
     Encode(sendError("key_error", "boom")),
     Encode(sendError("failed", "busy")),
     Garbage}

StubReply(c, line) ==
    /\ cpc[c] = "sent"
    /\ out[c] = <<>>
    /\ out' = Written(out, c, 1, line, NoCall)
    /\ UNCHANGED srvVars
    /\ UNCHANGED <<peer, inq, nread, task, msg, snap>>
    /\ UNCHANGED cliVars
    /\ UNCHANGED auxVars

UnitNext ==
    \/ \E c \in Conns, kind \in CallKinds : ClientDial(c, kind)
    \/ \E c \in Conns : ClientWrite(c)
    \/ \E c \in Conns, line \in StubLines : StubReply(c, line)
    \/ \E c \in Conns : ClientRead(c)
    \/ \E c \in Conns : ClientTimeout(c)

UnitSpec == Init /\ [][UnitNext]_vars

\* ------------------------------------------------- payloads as JSON text
\* The payload structs of protocol.go, field by field, and what json.Marshal
\* and json.Unmarshal make of them.
Catalogue ==
    {MsgGetState, MsgGetView, MsgSendKey, MsgSendInput, MsgClose,
     MsgState, MsgView, MsgAck, MsgError,
     MsgReady, MsgUpdated, MsgSelected, MsgCancelled}

Shapes == {"state", "view", "key", "input", "error"}

\* The payload shape that travels with each message type.
ShapeOf(t) ==
    CASE t = MsgState -> "state"
      [] t = MsgView -> "view"
      [] t = MsgSendKey -> "key"
      [] t = MsgSendInput -> "input"
      [] t = MsgError -> "error"
      [] OTHER -> "none"

\* Go strings: the empty one, valid UTF-8, and bytes that are not valid UTF-8;
\* json.Marshal writes the Unicode replacement character for such bytes.
BadUTF8 == "h<ff>"
Replaced == "h<fffd>"
Strs == {"", "hi", BadUTF8}
Coerce(s) == IF s = BadUTF8 THEN Replaced ELSE s

\* Values of a map[string]any: an int, a float64, a channel.
GoInt(n) == [go |-> "int", n |-> n]
GoFloat(n) == [go |-> "float64", n |-> n]
GoChan == [go |-> "chan", n |-> 0]

\* The Custom map: nil, empty but not nil, or holding one entry.
NilMap == [len |-> 0, nil |-> TRUE, n |-> GoInt(0)]
EmptyMap == [len |-> 0, nil |-> FALSE, n |-> GoInt(0)]
MapOf(v) == [len |-> 1, nil |-> FALSE, n |-> v]
Customs == {NilMap, EmptyMap, MapOf(GoInt(1)), MapOf(GoFloat(1)), MapOf(GoChan)}

NilPayload == [shape |-> "nil"]

StateStruct(custom, width, height, focused, mode, input, cursor) ==
    [shape |-> "state", Custom |-> custom, Width |-> width, Height |-> height,
     Focused |-> focused, Mode |-> mode, Input |-> input, Cursor |-> cursor]
ViewStruct(content, ansi) == [shape |-> "view", Content |-> content, ANSI |-> ansi]
KeyStruct(key, rune) == [shape |-> "key", Key |-> key, Rune |-> rune]
InputStruct(text) == [shape |-> "input", Text |-> text]
ErrorStruct(code, message) == [shape |-> "error", Code |-> code, Message |-> message]

ZeroStruct(shape) ==
    CASE shape = "state" -> StateStruct(NilMap, 0, 0, FALSE, "", "", 0)
      [] shape = "view" -> ViewStruct("", FALSE)
      [] shape = "key" -> KeyStruct("", 0)
      [] shape = "input" -> InputStruct("")
      [] OTHER -> ErrorStruct("", "")

PayloadsOf(shape) ==
    CASE shape = "state" ->
            {StateStruct(c, w, 0, f, m, i, k) :
                c \in Customs, w \in {0, 80}, f \in BOOLEAN,
                m \in Strs, i \in {"", "hi"}, k \in {0, 3}}
            \cup {StateStruct(NilMap, 80, 24, TRUE, "hi", "hi", 3)}
      [] shape = "view" -> {ViewStruct(s, a) : s \in Strs, a \in BOOLEAN}
      [] shape = "key" -> {KeyStruct(s, r) : s \in Strs, r \in {0, 120}}
      [] shape = "input" -> {InputStruct(s) : s \in Strs}
      [] shape = "error" -> {ErrorStruct(c, m) : c \in {"", "failed"}, m \in Strs}
      [] OTHER -> {}

\* JSON values: a member that is not there, a string, a number, a boolean.
Absent == [j |-> "absent"]
JStr(s) == [j |-> "str", s |-> Coerce(s)]
JNum(n) == [j |-> "num", n |-> n]
JBool(b) == [j |-> "bool", b |-> b]

\* The omitempty tag: a member holding its zero value is left out.
OmitEmpty(isZero, jv) == IF isZero THEN Absent ELSE jv

\* json.Marshal of the payload structs (tags of protocol.go lines 38-72).
jsonMarshal_fails(p) == p.shape = "state" /\ p.Custom.len > 0 /\ p.Custom.n = GoChan

jsonMarshal(p) ==
    CASE p.shape = "state" ->
            [j |-> "obj",
             custom |-> OmitEmpty(p.Custom.len = 0, [j |-> "obj", n |-> JNum(p.Custom.n.n)]),
             width |-> OmitEmpty(p.Width = 0, JNum(p.Width)),
             height |-> OmitEmpty(p.Height = 0, JNum(p.Height)),
             focused |-> OmitEmpty(~p.Focused, JBool(p.Focused)),
             mode |-> OmitEmpty(p.Mode = "", JStr(p.Mode)),
             input |-> OmitEmpty(p.Input = "", JStr(p.Input)),
             cursor |-> OmitEmpty(p.Cursor = 0, JNum(p.Cursor))]
      [] p.shape = "view" ->
            [j |-> "obj", content |-> JStr(p.Content), ansi |-> JBool(p.ANSI)]
      [] p.shape = "key" ->
            [j |-> "obj", key |-> JStr(p.Key), rune |-> OmitEmpty(p.Rune = 0, JNum(p.Rune))]
      [] p.shape = "input" -> [j |-> "obj", text |-> JStr(p.Text)]
      [] OTHER -> [j |-> "obj", code |-> JStr(p.Code), message |-> JStr(p.Message)]

\* json.Unmarshal into a zero struct: a member that is there and has the
\* field's JSON type sets its field, a field without such a member keeps its
\* zero value; a number put into an any becomes a float64.
Member(raw, key) == IF key \in DOMAIN raw THEN raw[key] ELSE Absent
StrField(raw, key) == IF Member(raw, key).j = "str" THEN Member(raw, key).s ELSE ""
NumField(raw, key) == IF Member(raw, key).j = "num" THEN Member(raw, key).n ELSE 0
BoolField(raw, key) == IF Member(raw, key).j = "bool" THEN Member(raw, key).b ELSE FALSE
MapField(raw, key) ==
    IF Member(raw, key).j = "obj" THEN MapOf(GoFloat(Member(raw, key).n.n)) ELSE NilMap

\* The error json.Unmarshal returns: the value is no JSON object, or a member
\* has another JSON type than its field.  The other members are still decoded.
FieldTypes(shape) ==
    CASE shape = "state" ->
            [custom |-> "obj", width |-> "num", height |-> "num", focused |-> "bool",
             mode |-> "str", input |-> "str", cursor |-> "num"]
      [] shape = "view" -> [content |-> "str", ansi |-> "bool"]
      [] shape = "key" -> [key |-> "str", rune |-> "num"]
      [] shape = "input" -> [text |-> "str"]
      [] OTHER -> [code |-> "str", message |-> "str"]

jsonUnmarshal_fails(raw, shape) ==
    \/ raw.j # "obj"
    \/ \E key \in DOMAIN FieldTypes(shape) :
          Member(raw, key).j \notin {"absent", FieldTypes(shape)[key]}

jsonUnmarshal(raw, shape) ==
    CASE shape = "state" ->
            StateStruct(MapField(raw, "custom"), NumField(raw, "width"),
                        NumField(raw, "height"), BoolField(raw, "focused"),
                        StrField(raw, "mode"), StrField(raw, "input"),
                        NumField(raw, "cursor"))
      [] shape = "view" -> ViewStruct(StrField(raw, "content"), BoolField(raw, "ansi"))
      [] shape = "key" -> KeyStruct(StrField(raw, "key"), NumField(raw, "rune"))
      [] shape = "input" -> InputStruct(StrField(raw, "text"))
      [] OTHER -> ErrorStruct(StrField(raw, "code"), StrField(raw, "message"))

\* Message.ParsePayload into a zero value of the shape: nothing is done for a
\* nil payload.
ParseInto_Skip(m, shape) == ZeroStruct(shape)

ParseInto(m, shape) ==
    IF m.payload = NoPayload THEN ZeroStruct(shape) ELSE jsonUnmarshal(m.payload, shape)

\* An envelope is made of (t, p) with NewMessage, written with Encode, read
\* back with Unmarshal and its payload parsed into the target shape.
RtInputs ==
    {[t |-> t, p |-> p, target |-> ShapeOf(t)] :
        t \in {MsgState, MsgView, MsgSendKey, MsgSendInput, MsgError},
        p \in UNION {PayloadsOf(s) : s \in Shapes}}
    \cup {[t |-> t, p |-> NilPayload, target |-> s] : t \in Catalogue, s \in Shapes}

EncodeStep ==
    /\ rt.stage = "in"
    /\ rt' = IF rt.p # NilPayload /\ jsonMarshal_fails(rt.p)
             THEN [stage |-> "out", t |-> rt.t, p |-> rt.p, target |-> rt.target,
                   err |-> "marshal", ot |-> "", op |-> NilPayload]
             ELSE [stage |-> "line", t |-> rt.t, p |-> rt.p, target |-> rt.target,
                   line |-> Encode(NewMessage(rt.t, IF rt.p = NilPayload THEN NoPayload
                                                    ELSE jsonMarshal(rt.p)))]
    /\ UNCHANGED <<file, inst, dialed, evret, ids>>
    /\ UNCHANGED extVars
    /\ UNCHANGED <<srvVars, connVars, cliVars>>

DecodeStep ==
    /\ rt.stage = "line"
    /\ LET u == Unmarshal(rt.line)
       IN rt' = [stage |-> "out", t |-> rt.t, p |-> rt.p, target |-> rt.target,
                 err |-> IF u.err THEN "unmarshal" ELSE "",
                 ot |-> u.msg.type, op |-> ParseInto(u.msg, rt.target)]
    /\ UNCHANGED <<file, inst, dialed, evret, ids>>
    /\ UNCHANGED extVars
    /\ UNCHANGED <<srvVars, connVars, cliVars>>

CodecInit ==
    /\ SrvInit
    /\ file = NoFile
    /\ inst = [i \in Insts |-> NoInst]
    /\ dialed = NoDial
    /\ evret = NoEvent
    /\ rt \in {[stage |-> "in", t |-> x.t, p |-> x.p, target |-> x.target] :
                x \in {y \in RtInputs : y.p = NilPayload \/ y.p.shape = y.target}}
    /\ ids = NoIds
    /\ ExtInit

CodecNext == EncodeStep \/ DecodeStep

CodecSpec == CodecInit /\ [][CodecNext]_vars

\* ---------------------------------------------------------- socket paths
\* A path is a sequence of characters; "/" separates its elements, the other
\* strings stand for themselves.  Canvas ids are made of letters, dots and
\* separators.
Alphabet == {"a", "b", ".", "/"}
Ids == UNION {[1..n -> Alphabet] : n \in 0..MaxIdLen}

\* os.TempDir() of the environment the server and the client run in.
TempDir == <<"/", "tmp">>

\* filepath.Clean of a rooted path: empty and "." elements are dropped, a ".."
\* element drops the element before it.
RECURSIVE SplitPath(_)
SplitPath(s) ==
    IF s = <<>> THEN << <<>> >>
    ELSE IF Head(s) = "/" THEN << <<>> >> \o SplitPath(Tail(s))
    ELSE LET r == SplitPath(Tail(s)) IN << <<Head(s)>> \o Head(r) >> \o Tail(r)

RECURSIVE CleanElems(_, _)
CleanElems(elems, kept) ==
    IF elems = <<>> THEN kept
    ELSE LET e == Head(elems)
         IN IF e = <<>> \/ e = <<".">> THEN CleanElems(Tail(elems), kept)
            ELSE IF e = <<".", ".">>
            THEN CleanElems(Tail(elems),
                            IF kept = <<>> THEN kept ELSE SubSeq(kept, 1, Len(kept) - 1))
            ELSE CleanElems(Tail(elems), Append(kept, e))

RECURSIVE JoinElems(_)
JoinElems(elems) ==
    IF elems = <<>> THEN <<>> ELSE <<"/">> \o Head(elems) \o JoinElems(Tail(elems))

Clean(path) ==
    LET r == JoinElems(CleanElems(SplitPath(path), <<>>))
    IN IF r = <<>> THEN <<"/">> ELSE r

\* filepath.Join: the elements that are not empty, separated, then cleaned.
Join(a, b) == IF b = <<>> THEN Clean(a) ELSE Clean(a \o <<"/">> \o b)

DefaultSocketDir == Join(TempDir, <<"opencode-canvas">>)

\* SocketPath: filepath.Join(DefaultSocketDir(), fmt.Sprintf("%s.sock", id)).
SocketPath_NoSuffix(id) == Join(DefaultSocketDir, id)

SocketPath(id) == Join(DefaultSocketDir, id \o <<".", "sock">>)

\* NewClient(id) and NewServer(id): the path each keeps for the id.
NewClient(id) == [id |-> id, socket |-> SocketPath(id)]
ServerSocket(id) == SocketPath(id)

\* The paths for two ids are computed, by the server and by the client.
AddressStep ==
    /\ ids.stage = "in"
    /\ ids' = [stage |-> "out", a |-> ids.a, b |-> ids.b,
               pa |-> SocketPath(ids.a), pb |-> SocketPath(ids.b),
               listens |-> ServerSocket(ids.a), dials |-> NewClient(ids.a).socket]
    /\ UNCHANGED <<file, inst, dialed, evret, rt>>
    /\ UNCHANGED extVars
    /\ UNCHANGED <<srvVars, connVars, cliVars>>

AddressInit ==
    /\ SrvInit
    /\ file = NoFile
    /\ inst = [i \in Insts |-> NoInst]
    /\ dialed = NoDial
    /\ evret = NoEvent
    /\ rt = NoRt
    /\ ids \in {[stage |-> "in", a |-> a, b |-> b] : a \in Ids, b \in Ids}
    /\ ExtInit

AddressNext == AddressStep

AddressSpec == AddressInit /\ [][AddressNext]_vars

\* ------------------------------------------------------------- SendEvent
\* A payload json.Marshal rejects (a channel, a function, a NaN).
Unmarshalable == [kind |-> "chan"]

\* SendEvent, lines 122-131: the envelope is built and dropped; the call
\* returns NewMessage's error when the payload does not marshal, nil otherwise.
SendEvent(t, p) ==
    /\ proc = "up"
    /\ evret' = [ret |-> IF p = Unmarshalable THEN "error" ELSE "nil", type |-> t]
    /\ UNCHANGED <<srvVars, connVars, cliVars>>
    /\ UNCHANGED <<file, inst, dialed, rt, ids>>
    /\ UNCHANGED extVars

\* The server emitting events while GetState calls run on every connection.
EventNext ==
    \/ ConcNext
    \/ \E t \in {MsgReady, MsgUpdated, MsgState},
          p \in {NoPayload, StatePayload(1), Unmarshalable} : SendEvent(t, p)

EventSpec == Init /\ [][EventNext]_vars

\* ------------------------------------------- server values made for one id
\* The path address(id) names nothing, a socket file whose listener is gone
\* (left by a process that died), or the socket that server value i bound.
StaleFile == [kind |-> "stale", of |-> 0]
SockOf(i) == [kind |-> "sock", of |-> i]

\* os.Remove(socketPath), line 70: fails when there is nothing at the path
\* (ENOENT) or when the entry cannot be unlinked; the error is dropped.
RemoveResult(f, rm) == IF f.kind = "none" THEN "enoent" ELSE rm
Removed(f, rm) == IF RemoveResult(f, rm) = "ok" THEN NoFile ELSE f

\* net.Listen("unix", socketPath), line 72: fails when the path exists
\* (address already in use) or for a reason of its own.
ListenResult(f, ln) == IF f.kind # "none" THEN "eaddrinuse" ELSE ln

\* NewServer(id) for the i-th server value of the id; mk, rm and ln are how
\* MkdirAll, Remove and Listen end when the file system lets them choose.
NewServer_RemoveFatal(i, mk, rm, ln) ==
    /\ inst[i].st = "none"
    /\ LET rr == RemoveResult(file, rm)
           f1 == Removed(file, rm)
           lr == ListenResult(f1, ln)
           r == IF mk # "ok"
                THEN [st |-> "nil", err |-> "mkdir", found |-> file.kind,
                      mk |-> mk, rm |-> "", ln |-> ""]
                ELSE IF rr # "ok"
                THEN [st |-> "nil", err |-> "remove", found |-> file.kind,
                      mk |-> mk, rm |-> rr, ln |-> ""]
                ELSE IF lr # "ok"
                THEN [st |-> "nil", err |-> "listen", found |-> file.kind,
                      mk |-> mk, rm |-> rr, ln |-> lr]
                ELSE [st |-> "bound", err |-> "", found |-> file.kind,
                      mk |-> mk, rm |-> rr, ln |-> lr]
       IN /\ inst' = [inst EXCEPT ![i] = r]
          /\ file' = IF mk # "ok" THEN file
                     ELSE IF r.st = "bound" THEN SockOf(i) ELSE f1
    /\ UNCHANGED <<dialed, evret, rt, ids>>
    /\ UNCHANGED extVars
    /\ UNCHANGED <<srvVars, connVars, cliVars>>

NewServer(i, mk, rm, ln) ==
    /\ inst[i].st = "none"
    /\ LET rr == RemoveResult(file, rm)
           f1 == Removed(file, rm)
           lr == ListenResult(f1, ln)
           r == IF mk # "ok"
                THEN [st |-> "nil", err |-> "mkdir", found |-> file.kind,
                      mk |-> mk, rm |-> "", ln |-> ""]
                ELSE IF lr # "ok"
                THEN [st |-> "nil", err |-> "listen", found |-> file.kind,
                      mk |-> mk, rm |-> rr, ln |-> lr]
                ELSE [st |-> "bound", err |-> "", found |-> file.kind,
                      mk |-> mk, rm |-> rr, ln |-> lr]
       IN /\ inst' = [inst EXCEPT ![i] = r]
          /\ file' = IF mk # "ok" THEN file
                     ELSE IF r.st = "bound" THEN SockOf(i) ELSE f1
    /\ UNCHANGED <<dialed, evret, rt, ids>>
    /\ UNCHANGED extVars
    /\ UNCHANGED <<srvVars, connVars, cliVars>>

\* Stop on server value i: listener.Close() and os.Remove(s.socket) both
\* unlink whatever the path names at that moment.
StopServer(i) ==
    /\ inst[i].st = "bound"
    /\ inst' = [inst EXCEPT ![i].st = "stopped"]
    /\ file' = NoFile
    /\ UNCHANGED <<dialed, evret, rt, ids>>
    /\ UNCHANGED extVars
    /\ UNCHANGED <<srvVars, connVars, cliVars>>

\* A client dials address(id): it connects to the listener whose socket the
\* path names, and is refused when the path names nothing or a dead socket.
DialAddress ==
    /\ dialed' = IF file.kind = "sock" /\ inst[file.of].st = "bound"
                 THEN [kind |-> "conn", of |-> file.of]
                 ELSE [kind |-> "refused", of |-> 0]
    /\ UNCHANGED <<file, inst, evret, rt, ids>>
    /\ UNCHANGED extVars
    /\ UNCHANGED <<srvVars, connVars, cliVars>>

\* Before any server value is made the path may hold a stale socket file.
LifeInit ==
    /\ SrvInit
    /\ file \in {NoFile, StaleFile}
    /\ inst = [i \in Insts |-> NoInst]
    /\ dialed = NoDial
    /\ evret = NoEvent
    /\ rt = NoRt
    /\ ids = NoIds
    /\ ExtInit

LifeNext ==
    \/ \E i \in Insts, mk \in {"ok", "eacces"}, rm \in {"ok", "eperm"},
          ln \in {"ok", "eacces"} : NewServer(i, mk, rm, ln)
    \/ \E i \in Insts : StopServer(i)
    \/ DialAddress

LifeSpec == LifeInit /\ [][LifeNext]_vars

\* ------------------------------------------------------------ the lock
\* handleMessage, lines 178-181, step by step: RLock, then the two copies and
\* RUnlock.  Any number of tasks hold the read lock together.
RLock(c) ==
    /\ proc = "up"
    /\ task[c] = "snap"
    /\ c \notin mu
    /\ mu' = mu \cup {c}
    /\ UNCHANGED <<srvVars, connVars, cliVars>>
    /\ UNCHANGED <<file, inst, dialed, evret, rt, ids, wrap, tail, ls, hc>>

CopyRUnlock_Deferred(c) ==
    /\ proc = "up"
    /\ task[c] = "snap"
    /\ c \in mu
    /\ snap' = [snap EXCEPT ![c] = [model |-> model, onClose |-> onClose]]
    /\ task' = [task EXCEPT ![c] = "call"]
    /\ UNCHANGED <<srvVars, cliVars>>
    /\ UNCHANGED <<peer, inq, nread, msg, out>>
    /\ UNCHANGED auxVars

CopyRUnlock(c) ==
    /\ proc = "up"
    /\ task[c] = "snap"
    /\ c \in mu
    /\ snap' = [snap EXCEPT ![c] = [model |-> model, onClose |-> onClose]]
    /\ mu' = mu \ {c}
    /\ task' = [task EXCEPT ![c] = "call"]
    /\ UNCHANGED <<srvVars, cliVars>>
    /\ UNCHANGED <<peer, inq, nread, msg, out>>
    /\ UNCHANGED <<file, inst, dialed, evret, rt, ids, wrap, tail, ls, hc>>

LockLines == {Wire(MsgGetState, NoPayload), Wire(MsgClose, NoPayload)}

LockNext ==
    \/ \E m \in {Nil, Full} : SetModel(m)
    \/ \E fn \in {"nil", "fn"} : OnClose(fn)
    \/ Start
    \/ \E c \in Conns : Accept(c)
    \/ \E c \in Conns : ReadLine(c)
    \/ \E c \in Conns : ReadFail(c)
    \/ \E c \in Conns : RLock(c)
    \/ \E c \in Conns : CopyRUnlock(c)
    \/ \E c \in Conns : Handle(c)
    \/ \E c \in Conns : RawDial(c)
    \/ \E c \in Conns, line \in LockLines : RawSend(c, line)
    \/ \E c \in Conns : RawClose(c)

\* A task that holds the read lock goes on to release it; nothing is assumed
\* about how long model code takes, or whether it returns at all.
LockSpec ==
    /\ Init
    /\ [][LockNext]_vars
    /\ \A c \in Conns : WF_vars(CopyRUnlock(c))

\* ------------------------------------------- one connection idle or stuck
\* Connection 1 is left to itself: its peer may send nothing and its handler
\* may stay inside model code for ever.  The accept loop and the tasks of the
\* other connections are goroutines that take their next step when they can.
Served == Conns \ {1}

BlockLines == {Wire(MsgGetState, NoPayload), Wire(MsgSendKey, KeyPayload("enter"))}

BlockNext ==
    \/ \E m \in {Nil, Full} : SetModel(m)
    \/ Start
    \/ \E c \in Conns : Accept(c)
    \/ \E c \in Conns : ReadLine(c)
    \/ \E c \in Conns : ReadFail(c)
    \/ \E c \in Conns : Snapshot(c)
    \/ \E c \in Conns : Handle(c)
    \/ \E c \in Conns : RawDial(c)
    \/ \E c \in Conns, line \in BlockLines : RawSend(c, line)
    \/ \E c \in Conns : RawClose(c)

BlockSpec ==
    /\ Init
    /\ [][BlockNext]_vars
    /\ \A c \in Served :
        /\ WF_vars(Accept(c))
        /\ WF_vars(ReadLine(c))
        /\ WF_vars(Snapshot(c))
        /\ WF_vars(Handle(c))

\* ------------------------------------------------------ listing canvases
\* strings.HasSuffix and strings.TrimSuffix on names written as sequences.
SockSuffix == <<".", "sock">>
HasSuffix(s, suffix) ==
    /\ Len(s) >= Len(suffix)
    /\ SubSeq(s, Len(s) - Len(suffix) + 1, Len(s)) = suffix
TrimSuffix(s, suffix) ==
    IF HasSuffix(s, suffix) THEN SubSeq(s, 1, Len(s) - Len(suffix)) ELSE s

\* The names the socket directory may hold, in the order os.ReadDir sorts them.
EntryNames ==
    << <<".", "sock">>, <<"a", ".", "pane">>, <<"a", ".", "sock">>,
       <<"b", ".", "sock">>, <<"sock">> >>

\* What a name of the directory stands for: nothing, a socket file whose
\* listener is gone, a bound socket whose accept loop is not running, the
\* socket of a running server with model m, or a plain file.
NoEntry == [at |-> "none", model |-> Nil]
StaleSock == [at |-> "stale", model |-> Nil]
BoundSock == [at |-> "bound", model |-> Nil]
LiveSock(m) == [at |-> "live", model |-> m]
PlainFile == [at |-> "file", model |-> Nil]

EntryKinds(name) ==
    IF HasSuffix(name, SockSuffix)
    THEN {NoEntry, StaleSock, BoundSock, LiveSock(Nil), LiveSock(StateOnly), LiveSock(ViewKey)}
    ELSE {NoEntry, PlainFile}

Dirs ==
    {d \in [1..Len(EntryNames) ->
                {NoEntry, StaleSock, BoundSock, PlainFile,
                 LiveSock(Nil), LiveSock(StateOnly), LiveSock(ViewKey)}] :
        \A i \in 1..Len(EntryNames) : d[i] \in EntryKinds(EntryNames[i])}

\* os.ReadDir: the indexes of the names that exist, in order.
RECURSIVE ReadDir(_, _)
ReadDir(d, i) ==
    IF i > Len(EntryNames) THEN <<>>
    ELSE IF d[i] = NoEntry THEN ReadDir(d, i + 1)
    ELSE <<i>> \o ReadDir(d, i + 1)

\* What Client.send returns for the get_state request of Ping, by what is at
\* the path dialed: the dial is refused, or the connection is made and nobody
\* answers before the deadline, or a server answers (or dies answering).
PingSend(e, oc) ==
    CASE e.at = "live" ->
            IF oc = Panic THEN SendErr("read")
            ELSE SendOk(Unmarshal(Encode(handleMessage(Request("ping"), e.model, oc))).msg)
      [] e.at = "bound" -> SendErr("timeout")
      [] OTHER -> SendErr("connect")

\* cmdList and handleList, the ReadDir call.
ListReadDir ==
    /\ ls.stage = "call"
    /\ ls' = [ls EXCEPT !.stage = "loop", !.entries = ReadDir(ls.dir, 1)]
    /\ UNCHANGED <<srvVars, connVars, cliVars>>
    /\ UNCHANGED <<file, inst, dialed, evret, rt, ids, wrap, mu, tail, hc>>

\* The loop body for the next entry: a name with the suffix gives an id, the
\* id a client, and Ping the status; any other name is passed over.
ListEntry(oc) ==
    /\ ls.stage = "loop"
    /\ ls.i <= Len(ls.entries)
    /\ LET k == ls.entries[ls.i]
           name == EntryNames[k]
           id == TrimSuffix(name, SockSuffix)
           client == NewClient(id)
       IN /\ oc \in (IF HasSuffix(name, SockSuffix)
                     THEN Outcomes(MsgGetState, ls.dir[k].model, "nil") ELSE {NoCall})
          /\ ls' = IF HasSuffix(name, SockSuffix)
                   THEN [ls EXCEPT
                           !.i = @ + 1,
                           !.dials = @ \cup {client.socket},
                           !.out = Append(@, [id |-> id, entry |-> k, oc |-> oc,
                                              status |-> IF Ping(PingSend(ls.dir[k], oc)).ok
                                                         THEN "alive" ELSE "dead"])]
                   ELSE [ls EXCEPT !.i = @ + 1]
    /\ UNCHANGED <<srvVars, connVars, cliVars>>
    /\ UNCHANGED <<file, inst, dialed, evret, rt, ids, wrap, mu, tail, hc>>

\* The end of the loop: the listing, or the text for an empty one.
ListReturn ==
    /\ ls.stage = "loop"
    /\ ls.i > Len(ls.entries)
    /\ ls' = [ls EXCEPT !.stage = "done",
                        !.text = IF ls.out = <<>> THEN "No active canvases" ELSE "list"]
    /\ UNCHANGED <<srvVars, connVars, cliVars>>
    /\ UNCHANGED <<file, inst, dialed, evret, rt, ids, wrap, mu, tail, hc>>

ListInit ==
    /\ SrvInit
    /\ file = NoFile
    /\ inst = [i \in Insts |-> NoInst]
    /\ dialed = NoDial
    /\ evret = NoEvent
    /\ rt = NoRt
    /\ ids = NoIds
    /\ wrap = NoWrap
    /\ mu = {}
    /\ tail = [c \in Conns |-> <<>>]
    /\ ls \in {[stage |-> "call", dir |-> d, entries |-> <<>>, i |-> 1, out |-> <<>>,
                dials |-> {}, text |-> ""] : d \in Dirs}
    /\ hc = NoHc

ListNext ==
    \/ ListReadDir
    \/ \E oc \in {Ret, Panic, NoCall} : ListEntry(oc)
    \/ ListReturn

ListSpec == ListInit /\ [][ListNext]_vars

\* ------------------------------------------------- no model registered
\* A server that was made and started and on which SetModel is never called:
\* the registered model stays nil.  A close callback may be registered.
NilNext ==
    \/ \E fn \in {"nil", "fn"} : OnClose(fn)
    \/ Start
    \/ \E c \in Callers : Accept(c)
    \/ \E c \in Callers : ReadLine(c)
    \/ \E c \in Callers : ReadFail(c)
    \/ \E c \in Callers : Snapshot(c)
    \/ \E c \in Callers : Handle(c)
    \/ \E c \in Callers : RawDial(c)
    \/ \E c \in Callers, line \in RawLines : RawSend(c, line)
    \/ \E c \in Callers : RawClose(c)

NilSpec == Init /\ [][NilNext]_vars

\* ------------------------------------------- send_key/send_input payloads
\* Payloads a peer can put into a send_key or send_input envelope: none, the
\* two shapes marshalled, a JSON string, and objects whose members have
\* another JSON type than the field they are named after.
HandlerPayloads ==
    {NoPayload,
     jsonMarshal(KeyStruct("hi", 0)), jsonMarshal(KeyStruct("hi", 120)),
     jsonMarshal(InputStruct("hi")), jsonMarshal(InputStruct("")),
     JStr("hi"),
     [j |-> "obj", key |-> JNum(5), rune |-> JNum(120)],
     [j |-> "obj", key |-> JStr("hi"), rune |-> JStr("x")],
     [j |-> "obj", text |-> JNum(5)],
     [j |-> "obj", text |-> JStr("hi"), key |-> JBool(TRUE)]}

\* The send_key and send_input cases of handleMessage for the line that
\* carries (t, payload) and the model m: the type assertion, ParsePayload into
\* a zero KeyPayload or InputPayload with its error dropped, the handler call
\* with the fields of that value, and the response.
HandleKeyOrInput(oc) ==
    /\ hc.stage = "line"
    /\ LET u == Unmarshal(hc.line)
           has == HasCap(hc.model, IF u.msg.type = MsgSendKey THEN CapKey ELSE CapInput)
           shape == ShapeOf(u.msg.type)
       IN /\ ~u.err
          /\ oc \in Outcomes(u.msg.type, hc.model, "nil")
          /\ hc' = IF oc = Panic
                   THEN [hc EXCEPT !.stage = "panicked", !.calls = 1,
                                   !.args = ParseInto(u.msg, shape)]
                   ELSE [hc EXCEPT !.stage = "out",
                                   !.calls = IF has THEN 1 ELSE 0,
                                   !.args = IF has THEN ParseInto(u.msg, shape)
                                            ELSE NilPayload,
                                   !.perr = has /\ u.msg.payload # NoPayload
                                                /\ jsonUnmarshal_fails(u.msg.payload, shape),
                                   !.resp = Encode(handleMessage(u.msg, hc.model, oc))]
    /\ UNCHANGED <<srvVars, connVars, cliVars>>
    /\ UNCHANGED <<file, inst, dialed, evret, rt, ids, wrap, mu, tail, ls>>

PayloadInit ==
    /\ SrvInit
    /\ file = NoFile
    /\ inst = [i \in Insts |-> NoInst]
    /\ dialed = NoDial
    /\ evret = NoEvent
    /\ rt = NoRt
    /\ ids = NoIds
    /\ wrap = NoWrap
    /\ mu = {}
    /\ tail = [c \in Conns |-> <<>>]
    /\ ls = NoList
    /\ hc \in {[stage |-> "line", line |-> Encode(NewMessage(t, p)), model |-> m,
                calls |-> 0, args |-> NilPayload, perr |-> FALSE, resp |-> Garbage] :
                 t \in {MsgSendKey, MsgSendInput}, p \in HandlerPayloads, m \in Models}

PayloadNext == \E oc \in {Ret, Panic, NoCall} \cup {Fail(e) : e \in ErrMsgs} : HandleKeyOrInput(oc)

PayloadSpec == PayloadInit /\ [][PayloadNext]_vars

\* ------------------------------------------------- unterminated bytes
\* A peer that writes a line in two parts: first its bytes, later the
\* newline.  Until the newline is there ReadBytes does not return them.
RawSendPartial(c, bytes) ==
    /\ proc = "up"
    /\ peer[c] = "open"
    /\ tail[c] = <<>>
    /\ tail' = [tail EXCEPT ![c] = <<bytes>>]
    /\ UNCHANGED <<srvVars, connVars, cliVars>>
    /\ UNCHANGED <<file, inst, dialed, evret, rt, ids, wrap, mu, ls, hc>>

RawNewline(c) ==
    /\ proc = "up"
    /\ peer[c] = "open"
    /\ tail[c] # <<>>
    /\ SumLen(inq, Conns) < MaxLines
    /\ inq' = [inq EXCEPT ![c] = Append(@, tail[c][1])]
    /\ tail' = [tail EXCEPT ![c] = <<>>]
    /\ UNCHANGED srvVars
    /\ UNCHANGED <<peer, nread, task, msg, snap, out>>
    /\ UNCHANGED cliVars
    /\ UNCHANGED <<file, inst, dialed, evret, rt, ids, wrap, mu, ls, hc>>

PartialLines == {Garbage, Wire(MsgGetState, NoPayload), Wire(MsgSendKey, KeyPayload("enter"))}

PartialNext ==
    \/ \E m \in {Nil, Full} : SetModel(m)
    \/ Start
    \/ \E c \in Callers : Accept(c)
    \/ \E c \in Callers : ReadLine(c)
    \/ \E c \in Callers : ReadFail(c)
    \/ \E c \in Callers : Snapshot(c)
    \/ \E c \in Callers : Handle(c)
    \/ \E c \in Callers : RawDial(c)
    \/ \E c \in Callers, line \in PartialLines : tail[c] = <<>> /\ RawSend(c, line)
    \/ \E c \in Callers, bytes \in PartialLines : RawSendPartial(c, bytes)
    \/ \E c \in Callers : RawNewline(c)
    \/ \E c \in Callers : RawClose(c)

PartialSpec == Init /\ [][PartialNext]_vars

\* ------------------------------------------------------------------ Wrap
\* The program calls Wrap(canvasID, model) once, in an environment that sets
\* or leaves empty OPENCODE_CANVAS and CANVAS_ID.
WrapEnvs == {[OPENCODE_CANVAS |-> o, CANVAS_ID |-> e] : o \in {"", "1"}, e \in {"", "b"}}

WrapCall(env, canvasID, w) ==
    [pc |-> "call", env |-> env, canvasID |-> canvasID, model |-> w,
     id |-> "", ret |-> "none"]

\* Wrap, lines 28-37: canvas mode is on when either variable is set; the id is
\* CANVAS_ID when that is set and the argument otherwise.
CanvasMode(env) == ~(env.OPENCODE_CANVAS = "" /\ env.CANVAS_ID = "")
WrapId(env, canvasID) == IF env.CANVAS_ID # "" THEN env.CANVAS_ID ELSE canvasID

\* Wrap, lines 28-43: without canvas mode the model is returned as it is;
\* otherwise NewServer(id) runs, and when it fails the model is returned as it
\* is.  mk, rm and ln are how MkdirAll, Remove and Listen end.
WrapNewServer(mk, rm, ln) ==
    /\ wrap.pc = "call"
    /\ IF ~CanvasMode(wrap.env)
       THEN /\ wrap' = [wrap EXCEPT !.pc = "done", !.ret = "model"]
            /\ UNCHANGED <<file, listener, sockfile>>
       ELSE LET f1 == Removed(file, rm)
                ok == mk = "ok" /\ ListenResult(f1, ln) = "ok"
            IN /\ wrap' = [wrap EXCEPT !.pc = IF ok THEN "made" ELSE "done",
                                       !.id = WrapId(wrap.env, wrap.canvasID),
                                       !.ret = IF ok THEN "none" ELSE "model"]
               /\ file' = IF mk # "ok" THEN file ELSE IF ok THEN SockOf(1) ELSE f1
               /\ listener' = IF ok THEN "open" ELSE listener
               /\ sockfile' = (file'.kind # "none")
    /\ UNCHANGED <<model, onClose, done, accept, proc>>
    /\ UNCHANGED <<connVars, cliVars>>
    /\ UNCHANGED <<inst, dialed, evret, rt, ids, mu, tail, ls, hc>>

\* Wrap, line 50: server.SetModel(adapter).
WrapSetModel_Skip ==
    /\ wrap.pc = "made"
    /\ wrap' = [wrap EXCEPT !.pc = "set"]
    /\ UNCHANGED <<srvVars, connVars, cliVars>>
    /\ UNCHANGED <<file, inst, dialed, evret, rt, ids, mu, tail, ls, hc>>

WrapSetModel ==
    /\ wrap.pc = "made"
    /\ model' = Adapter
    /\ wrap' = [wrap EXCEPT !.pc = "set"]
    /\ UNCHANGED <<onClose, listener, sockfile, done, accept, proc>>
    /\ UNCHANGED <<connVars, cliVars>>
    /\ UNCHANGED <<file, inst, dialed, evret, rt, ids, mu, tail, ls, hc>>

\* Wrap, lines 51-53: server.Start(), and the adapter is returned.
WrapStart ==
    /\ wrap.pc = "set"
    /\ accept' = "on"
    /\ wrap' = [wrap EXCEPT !.pc = "done", !.ret = "adapter"]
    /\ UNCHANGED <<model, onClose, listener, sockfile, done, proc>>
    /\ UNCHANGED <<connVars, cliVars>>
    /\ UNCHANGED <<file, inst, dialed, evret, rt, ids, mu, tail, ls, hc>>

\* BubbleTeaAdapter.Update, lines 62-70: a QuitMsg stops the server; the
\* wrapped program's Update runs and the model it returns replaces a.model.
Update(quit, newModel) ==
    /\ proc = "up"
    /\ wrap.pc = "done"
    /\ wrap.ret = "adapter"
    /\ quit => ~done
    /\ done' = (done \/ quit)
    /\ listener' = IF quit THEN "closed" ELSE listener
    /\ sockfile' = IF quit THEN FALSE ELSE sockfile
    /\ file' = IF quit THEN NoFile ELSE file
    /\ wrap' = [wrap EXCEPT !.model = newModel]
    /\ UNCHANGED <<model, onClose, accept, proc>>
    /\ UNCHANGED <<connVars, cliVars>>
    /\ UNCHANGED <<inst, dialed, evret, rt, ids, mu, tail, ls, hc>>

\* Before Wrap is called there is no server: nothing listens, and the path
\* names nothing or a socket file that a dead process left.
WrapInit ==
    /\ model = Nil
    /\ onClose = "nil"
    /\ listener = "closed"
    /\ file \in {NoFile, StaleFile}
    /\ sockfile = (file.kind # "none")
    /\ done = FALSE
    /\ accept = "off"
    /\ proc = "up"
    /\ peer = [c \in Conns |-> "idle"]
    /\ inq = [c \in Conns |-> <<>>]
    /\ nread = [c \in Conns |-> 0]
    /\ task = [c \in Conns |-> "none"]
    /\ msg = [c \in Conns |-> NoMsg]
    /\ snap = [c \in Conns |-> NoSnap]
    /\ out = [c \in Conns |-> <<>>]
    /\ cpc = [c \in Conns |-> "idle"]
    /\ call = [c \in Conns |-> ""]
    /\ res = [c \in Conns |-> NoRes]
    /\ inst = [i \in Insts |-> NoInst]
    /\ dialed = NoDial
    /\ evret = NoEvent
    /\ rt = NoRt
    /\ ids = NoIds
    /\ wrap \in {WrapCall(env, "a", w) : env \in WrapEnvs, w \in TeaModels}
    /\ mu = {}
    /\ tail = [c \in Conns |-> <<>>]
    /\ ls = NoList
    /\ hc = NoHc

\* The requests a controller sends to a wrapped program.
WrapLines ==
    {Wire(MsgGetState, NoPayload), Wire(MsgGetView, NoPayload),
     Wire(MsgSendKey, KeyPayload("enter")), Wire(MsgSendInput, InputPayload("hi"))}

WrapNext ==
    \/ \E mk \in {"ok", "eacces"}, rm \in {"ok", "eperm"}, ln \in {"ok", "eacces"} :
          WrapNewServer(mk, rm, ln)
    \/ WrapSetModel
    \/ WrapStart
    \/ \E quit \in BOOLEAN, w \in TeaModels : Update(quit, w)
    \/ \E c \in Callers : Accept(c)
    \/ \E c \in Callers : ReadLine(c)
    \/ \E c \in Callers : ReadFail(c)
    \/ \E c \in Callers : Snapshot(c)
    \/ \E c \in Callers : Handle(c)
    \/ \E c \in Callers : RawDial(c)
    \/ \E c \in Callers, line \in WrapLines : RawSend(c, line)
    \/ \E c \in Callers : RawClose(c)

WrapSpec == WrapInit /\ [][WrapNext]_vars

\* ================================================================ claims
\* The step in which connection c's handler finishes a request: it was inside
\* handleMessage after the copy, and either wrote its response or took the
\* process down.
HandlerStep(c) ==
    /\ task[c] = "call"
    /\ task'[c] # "call"

\* The entry a step appended to out[c], when it appended one.
Wrote(c) == Len(out'[c]) = Len(out[c]) + 1
NewEntry(c) == out'[c][Len(out'[c])]

\* The dispatch table of the specification.
RequiredCap(t) ==
    CASE t = MsgGetState -> CapState
      [] t = MsgGetView -> CapView
      [] t = MsgSendKey -> CapKey
      [] OTHER -> CapInput

MissingText(t) ==
    CASE t = MsgGetState -> "model does not implement StateProvider"
      [] t = MsgGetView -> "model does not implement ViewProvider"
      [] t = MsgSendKey -> "model does not implement KeyHandler"
      [] OTHER -> "model does not implement InputHandler"

ErrorLine(code, message) ==
    [json |-> TRUE, type |-> "error",
     payload |-> [kind |-> "error", code |-> code, message |-> message]]

AckLine == [json |-> TRUE, type |-> "ack", payload |-> NoPayload]

SuccessLine(t, m) ==
    CASE t = MsgGetState ->
            [json |-> TRUE, type |-> "state", payload |-> [kind |-> "state", mode |-> m.id]]
      [] t = MsgGetView ->
            [json |-> TRUE, type |-> "view",
             payload |-> [kind |-> "view", content |-> m.id, ansi |-> TRUE]]
      [] OTHER -> AckLine

IsError(line, code) ==
    line.json /\ line.type = "error" /\ line.payload.kind = "error" /\ line.payload.code = code

Req(c, k) == Unmarshal(inq[c][k])

\* A connection task has ended only because a read failed: the peer is gone
\* and every line it wrote was read.
EndedByReadFailureOnly(c) ==
    task[c] = "closed" => peer[c] = "closed" /\ nread[c] = Len(inq[c])

\* C2: a line that does not decode is answered with parse_error and does not
\* end the read loop: a valid get_state line after it is answered, after the
\* parse_error, with state or not_supported.
C2_ParseErrorKeepsLoop ==
    \A c \in Conns :
        /\ EndedByReadFailureOnly(c)
        /\ \A k \in 1..Len(out[c]) :
              Req(c, k).err => IsError(out[c][k].line, "parse_error")
        /\ \A k \in 1..Len(out[c]) : \A j \in (k + 1)..Len(out[c]) :
              (Req(c, k).err /\ ~Req(c, j).err /\ Req(c, j).msg.type = MsgGetState)
              => \/ out[c][j].line.type = "state"
                 \/ IsError(out[c][j].line, "not_supported")

\* C2 witness: an undecodable line and then get_state on one connection,
\* answered by parse_error and then state.
C2_Witness ==
    \E c \in Conns :
        /\ Len(out[c]) = 2
        /\ Req(c, 1).err
        /\ IsError(out[c][1].line, "parse_error")
        /\ out[c][2].line.type = "state"

\* A request line has been read and its handler is still running.
InFlight(c) == proc = "up" /\ task[c] \in {"snap", "call"}

\* C3: on every connection there is exactly one response per request line
\* read, written on that connection, the k-th answering the k-th line, before
\* the next line is dispatched; no request is dropped and the connection is
\* closed only by a read failure.
C3_OneResponsePerLine ==
    \A c \in Conns :
        /\ \A k \in 1..Len(out[c]) : out[c][k].conn = c /\ out[c][k].seq = k
        /\ nread[c] = Len(out[c]) + (IF InFlight(c) THEN 1 ELSE 0)
        /\ EndedByReadFailureOnly(c)

\* C5: however the model code called by a handler ends, a panic included, the
\* handler writes a response on its connection, the connection task goes back
\* to reading and the server stays up: no panic of model code gets past the
\* handler.
C5_PanicContained ==
    [][\A c \in Conns :
          HandlerStep(c)
          => /\ proc' = "up"
             /\ task'[c] = "read"
             /\ Wrote(c)
             /\ task'[c] # "panicked"]_vars

\* C6: when the key-handler (input-handler) returns an error, the response is
\* key_error (input_error) with the handler's message, it is the only response
\* to that request, and the task goes back to reading with the server up.
C6_HandlerError ==
    [][\A c \in Conns :
          (HandlerStep(c) /\ Wrote(c) /\ NewEntry(c).oc.k = "err")
          => /\ msg[c].type = MsgSendKey
                => NewEntry(c).line = ErrorLine("key_error", NewEntry(c).oc.e)
             /\ msg[c].type = MsgSendInput
                => NewEntry(c).line = ErrorLine("input_error", NewEntry(c).oc.e)
             /\ msg[c].type \in {MsgSendKey, MsgSendInput}
             /\ NewEntry(c).seq = Len(out'[c])
             /\ task'[c] = "read"
             /\ proc' = "up"]_vars

\* C6 witness: a key_error response, and a later request on the same
\* connection that was answered too.
C6_Witness ==
    \E c \in Conns :
        /\ Len(out[c]) = 2
        /\ out[c][1].line = ErrorLine("key_error", "busy")
        /\ out[c][1].oc = Fail("busy")

\* The response of the specification's table to envelope rq for model m.
TableLine(rq, m, oc) ==
    IF rq.type \in {MsgGetState, MsgGetView, MsgSendKey, MsgSendInput}
    THEN IF RequiredCap(rq.type) \notin m.caps
         THEN ErrorLine("not_supported", MissingText(rq.type))
         ELSE IF oc.k = "err"
              THEN ErrorLine(IF rq.type = MsgSendKey THEN "key_error" ELSE "input_error", oc.e)
              ELSE SuccessLine(rq.type, m)
    ELSE IF rq.type = MsgClose THEN AckLine
    ELSE ErrorLine("unknown_type", "unknown message type: " \o rq.type)

\* C8: SetModel replaces the model in one step; a handler copies the model
\* registered at the instant of its copy, and its capability check and its
\* response are those of its copy, whatever is registered by then.
C8_SnapshotDispatch ==
    [][/\ \A c \in Conns :
            (task[c] = "snap" /\ task'[c] = "call") => snap'[c].model = model
       /\ \A c \in Conns :
            (HandlerStep(c) /\ Wrote(c))
            => NewEntry(c).line = TableLine(msg[c], snap[c].model, NewEntry(c).oc)]_vars

\* C8 witness: a handler holds a copy of the state-only model while the full
\* model is registered, and it is about to answer get_view.
C8_Witness ==
    \E c \in Conns :
        /\ task[c] = "call"
        /\ snap[c].model = StateOnly
        /\ model = Full
        /\ msg[c].type = MsgGetView

\* The step in which the call on c returns.
ReturnStep(c) == cpc[c] # "done" /\ cpc'[c] = "done"

\* C4: ping, like state, succeeds exactly when the call read a response that
\* a state-provider produced: it is false when nothing listens at the
\* address, false when the dispatched model lacks the state-provider (or no
\* response was read), true when the model has it and the response was read.
C4_Ping ==
    [][/\ \A c \in Callers :
            (ReturnStep(c) /\ call'[c] \in {"ping", "state"})
            => /\ res'[c].ok = (cpc[c] = "sent" /\ out[c] # <<>> /\ out[c][1].oc = Ret)
               /\ (cpc[c] = "idle" /\ listener # "open") => ~res'[c].ok
       /\ \A c \in Callers :
            (HandlerStep(c) /\ Wrote(c) /\ msg[c].type = MsgGetState)
            => (NewEntry(c).oc = Ret <=> CapState \in snap[c].model.caps)]_vars

\* C4 witness: a ping that returned true.
C4_Witness ==
    \E c \in Callers : cpc[c] = "done" /\ call[c] = "ping" /\ res[c].ok

\* C7: with GetState called on every connection at once, each connection
\* carries at most one response line, written by its own task for its own
\* request, and a call that succeeds returns the payload of that line.
C7_ConcurrentGetState ==
    \A c \in Conns :
        /\ Len(out[c]) <= 1
        /\ \A k \in 1..Len(out[c]) : out[c][k].conn = c /\ out[c][k].seq = k
        /\ (cpc[c] = "done" /\ res[c].ok)
           => /\ out[c] # <<>>
              /\ out[c][1].line.json
              /\ out[c][1].line.type = "state"
              /\ res[c].val = out[c][1].line.payload

\* C7 witness: the calls on all connections have returned a state.
C7_Witness ==
    \A c \in Conns : cpc[c] = "done" /\ res[c].ok /\ res[c].val.kind = "state"

\* C9: a call of state, view, sendKey, sendInput or close that read a response
\* of type error returns an error carrying the response's code and message.
C9_ErrorResponseIsError ==
    \A c \in Conns :
        (/\ cpc[c] = "done"
         /\ call[c] \in {"state", "view", "key", "input", "close"}
         /\ out[c] # <<>>
         /\ out[c][1].line.json
         /\ out[c][1].line.type = "error"
         /\ out[c][1].line.payload.kind = "error")
        => /\ ~res[c].ok
           /\ res[c].err = "server"
           /\ res[c].code = out[c][1].line.payload.code
           /\ res[c].message = out[c][1].line.payload.message

\* C10: a call that has connected returns; a call that finds nothing
\* listening returns a connect error at once and has written nothing; a call
\* that returns without a response line having arrived returns an error.
C10_EveryCallReturns ==
    /\ \A c \in Callers : (cpc[c] \in {"connected", "sent"}) ~> (cpc[c] = "done")
    /\ [][\A c \in Callers :
            /\ (cpc[c] = "idle" /\ cpc'[c] # "idle" /\ listener # "open")
               => /\ cpc'[c] = "done"
                  /\ ~res'[c].ok
                  /\ call'[c] # "ping" => res'[c].err = "connect"
                  /\ inq'[c] = <<>>
            /\ (ReturnStep(c) /\ cpc[c] = "sent" /\ out[c] = <<>>)
               => /\ ~res'[c].ok
                  /\ call'[c] # "ping" => res'[c].err \in {"timeout", "read"}]_vars

\* C10 witness: the server accepted the connection and wrote nothing, and the
\* call returned a timeout.
C10_Witness ==
    \E c \in Callers :
        /\ cpc[c] = "done"
        /\ res[c].err = "timeout"
        /\ task[c] \in {"read", "snap", "call"}
        /\ out[c] = <<>>

\* The calls into model code that connection c's task has made: one for each
\* response whose handler called a capability or the callback, and the one
\* that panicked.
Invocations(c) ==
    Cardinality({k \in 1..Len(out[c]) : out[c][k].oc # NoCall})
    + (IF task[c] = "panicked" THEN 1 ELSE 0)

\* C11: a client call uses one connection, on which it writes exactly one
\* request line, the envelope of the call; the connection is open while the
\* call runs and closed once it has returned, whatever it returned; a call
\* that has returned writes nothing more (no retry), so the model code is
\* invoked at most once for it.
C11_OneRequestPerCall ==
    /\ [](\A c \in Callers :
            /\ Len(inq[c]) <= 1
            /\ (cpc[c] = "sent" \/ inq[c] # <<>>)
               => inq[c] = <<Encode(Request(call[c]))>>
            /\ (cpc[c] \in {"connected", "sent"}) => peer[c] = "open"
            /\ (cpc[c] = "done") => peer[c] # "open"
            /\ Invocations(c) <= 1)
    /\ [][\A c \in Callers :
            (cpc[c] = "done") => (cpc'[c] = "done" /\ inq'[c] = inq[c] /\ res'[c] = res[c])]_vars

\* C11 witness: a sendKey call returned success after the handler ran once,
\* and its connection is closed.
C11_Witness ==
    \E c \in Callers :
        /\ cpc[c] = "done"
        /\ call[c] = "key"
        /\ res[c].ok
        /\ Invocations(c) = 1
        /\ peer[c] = "closed"

\* C12: once Stop has returned the listener is closed and the socket file is
\* gone; a started accept loop ends; no connection is accepted after that,
\* and a call made after that fails in the dial without a connection.
C12_StopClosesEndpoint ==
    /\ [](done => (listener = "closed" /\ ~sockfile))
    /\ (done /\ accept = "on") ~> (accept = "exited" \/ proc = "crashed")
    /\ [][done => \A c \in Conns :
            /\ (task[c] = "none") => (task'[c] = "none")
            /\ (cpc[c] = "idle" /\ cpc'[c] # "idle")
               => (cpc'[c] = "done" /\ ~res'[c].ok /\ peer'[c] = "idle")]_vars

\* C12 witness: after Stop the accept loop has ended and a call dialed then
\* has failed to connect.
C12_Witness ==
    \E c \in Callers :
        /\ done
        /\ accept = "exited"
        /\ cpc[c] = "done"
        /\ res[c].err = "connect"
        /\ peer[c] = "idle"

\* C13: the step in which Stop returns changes nothing of any connection; a
\* connection accepted before it on which the request is written only after
\* it still gets its response written (unless model code panics, which ends
\* the process); and a connection task has ended only when its peer is gone.
C13_StopLeavesConnections ==
    /\ [][(~done /\ done') => UNCHANGED connVars]_vars
    /\ [](\A c \in Conns : (task[c] = "closed") => (peer[c] = "closed"))
    /\ \A c \in Callers :
        (done /\ task[c] = "read" /\ cpc[c] = "connected")
        ~> (Len(out[c]) = 1 \/ proc = "crashed")

\* C13 witness: Stop has returned, the accept loop has ended, and a handler is
\* in flight on a connection whose peer is still there.
C13_Witness ==
    \E c \in Callers :
        /\ done
        /\ accept = "exited"
        /\ task[c] = "call"
        /\ peer[c] = "open"

\* C14: a server value that is bound and not stopped is the one the path
\* names, so a client dialing address(id) reaches it.
C14_ExclusiveOwnership ==
    \A i \in Insts : (inst[i].st = "bound") => (file = SockOf(i))

\* The step in which NewServer returns for server value i.
Created(i) == inst[i].st = "none" /\ inst'[i].st # "none"

\* C15: NewServer fails exactly with a directory or a listen error and then
\* returns no server; it succeeds whenever MkdirAll and Listen succeed,
\* whether or not Remove did, and then the path names the new server's
\* socket, a stale file that was there included; a failed MkdirAll leaves the
\* path alone.  A dial connects to the server whose socket the path names.
C15_CreateRebinds ==
    /\ [][\A i \in Insts : Created(i) =>
            LET r == inst'[i] IN
            /\ r.err \in {"", "mkdir", "listen"}
            /\ (r.st = "bound") <=> (r.err = "")
            /\ (r.st = "nil") <=> (r.err # "")
            /\ (r.mk # "ok") => (r.err = "mkdir" /\ file' = file)
            /\ (r.mk = "ok" /\ r.ln # "ok") => (r.err = "listen")
            /\ (r.mk = "ok" /\ r.ln = "ok") => (r.st = "bound" /\ file' = SockOf(i))
            /\ (file = StaleFile /\ r.mk = "ok" /\ r.rm = "ok")
               => (r.ln \in {"ok", "eacces"})]_vars
    /\ [][(dialed' # dialed /\ file.kind = "sock" /\ inst[file.of].st = "bound")
          => dialed' = [kind |-> "conn", of |-> file.of]]_vars

\* C15 witness: a server was created over a stale socket file, which it
\* removed, and a client dialing the address has reached it.
C15_Witness ==
    \E i \in Insts :
        /\ inst[i].st = "bound"
        /\ inst[i].found = "stale"
        /\ inst[i].rm = "ok"
        /\ file = SockOf(i)
        /\ dialed = [kind |-> "conn", of |-> i]

C17_UnknownType ==
    [][\A c \in Conns :
        (HandlerStep(c) /\ msg[c].type \notin RequestTypes) =>
            /\ Wrote(c)
            /\ NewEntry(c).line
               = ErrorLine("unknown_type", "unknown message type: " \o msg[c].type)
            /\ NewEntry(c).oc = NoCall
            /\ NewEntry(c).conn = c
            /\ task'[c] = "read"
            /\ proc' = "up"
            /\ peer' = peer]_vars

\* C17 witness: an envelope with no type was answered unknown_type and the
\* get_state after it on the same connection was answered with the state.
C17_Witness ==
    \E c \in Conns :
        /\ Len(out[c]) = 2
        /\ inq[c][1].type = ""
        /\ out[c][1].line = ErrorLine("unknown_type", "unknown message type: ")
        /\ out[c][2].line.type = MsgState

\* The step in which a SendEvent call returns.
Emitted == evret' # evret

\* C18: a SendEvent call writes nothing on any connection, leaves the model,
\* the callback, the listener and the socket file as they were, and does not
\* return the nil error of a delivered event.
C18_EventNoOp ==
    [][Emitted =>
        /\ UNCHANGED <<srvVars, connVars, cliVars>>
        /\ evret'.ret # "nil"]_vars

\* A payload json carries as it is: its strings are valid UTF-8 and its
\* custom map is nil or holds values in the form json.Unmarshal gives them.
JSONNative(p) ==
    CASE p.shape = "state" ->
            /\ p.Mode # BadUTF8 /\ p.Input # BadUTF8
            /\ (p.Custom = NilMap \/ (p.Custom.len > 0 /\ p.Custom.n.go = "float64"))
      [] p.shape = "view" -> p.Content # BadUTF8
      [] p.shape = "key" -> p.Key # BadUTF8
      [] p.shape = "input" -> p.Text # BadUTF8
      [] p.shape = "error" -> p.Code # BadUTF8 /\ p.Message # BadUTF8
      [] OTHER -> TRUE

\* The envelope has been through encode and decode.
RoundTripped == rt.stage = "out"

\* C19 as stated: for every catalogued type and every payload of its shape,
\* the absent one included, decoding the encoded envelope and parsing its
\* payload gives back the type and the payload; an absent payload parses
\* without error to the zero value of the target.
C19_RoundTrip ==
    RoundTripped =>
        /\ rt.err = ""
        /\ rt.ot = rt.t
        /\ rt.op = (IF rt.p = NilPayload THEN ZeroStruct(rt.target) ELSE rt.p)

\* C19 amended: the same for the payloads json carries as they are.
C19_RoundTripNative ==
    (RoundTripped /\ JSONNative(rt.p)) =>
        /\ rt.err = ""
        /\ rt.ot = rt.t
        /\ rt.op = (IF rt.p = NilPayload THEN ZeroStruct(rt.target) ELSE rt.p)

\* C19 witness: a state payload with a custom map and all fields set came
\* back as it was.
C19_Witness ==
    /\ RoundTripped
    /\ rt.t = MsgState
    /\ rt.p = StateStruct(MapOf(GoFloat(1)), 80, 0, TRUE, "hi", "hi", 3)
    /\ rt.op = rt.p

\* An id that is safe as a file name: it holds no separator.
FilesystemSafe(id) == \A k \in 1..Len(id) : id[k] # "/"

\* C20: the path of a safe id is the socket directory, a separator, the id
\* and ".sock"; two different safe ids have different paths; the client made
\* for an id dials the path the server made for that id listens on.
C20_Address ==
    (ids.stage = "out") =>
        /\ FilesystemSafe(ids.a)
           => ids.pa = <<"/", "tmp", "/", "opencode-canvas", "/">> \o ids.a \o <<".", "sock">>
        /\ (FilesystemSafe(ids.a) /\ FilesystemSafe(ids.b) /\ ids.a # ids.b)
           => ids.pa # ids.pb
        /\ ids.dials = ids.listens
        /\ ids.listens = ids.pa

\* C20 witness: the ids "." and ".." got two different paths.
C20_Witness ==
    /\ ids.stage = "out"
    /\ ids.a = <<".">>
    /\ ids.b = <<".", ".">>
    /\ ids.pa # ids.pb
    /\ ids.dials = ids.pa

\* The line a view response carries for content s.
ViewLine(s) ==
    [json |-> TRUE, type |-> "view", payload |-> [kind |-> "view", content |-> s, ansi |-> TRUE]]

\* The handler of connection c works for a program wrapped with Wrap.
OnWrapped(c) == snap[c].model = Adapter /\ wrap.ret = "adapter"

\* C21: when the program wrapped with Wrap in canvas mode implements
\* KeyHandler (InputHandler), a send_key (send_input) request to the canvas
\* calls the program's HandleCanvasKey (HandleCanvasInput), and is answered
\* with ack when the handler returns no error.
C21_WrapForwardsHandlers ==
    [][\A c \in Callers :
        (/\ HandlerStep(c)
         /\ OnWrapped(c)
         /\ msg[c].type \in {MsgSendKey, MsgSendInput}
         /\ HasCap(wrap.model, RequiredCap(msg[c].type))
         /\ Wrote(c))
        => /\ NewEntry(c).oc # NoCall
           /\ (NewEntry(c).oc = Ret) => (NewEntry(c).line = AckLine)]_vars

\* C22: for a program wrapped with Wrap in canvas mode, get_view returns the
\* program's CanvasView() when the program implements ViewProvider and the
\* program's View() otherwise.
C22_ViewProviderOptional ==
    [][\A c \in Callers :
        (/\ HandlerStep(c)
         /\ OnWrapped(c)
         /\ msg[c].type = MsgGetView
         /\ Wrote(c))
        => NewEntry(c).line =
              ViewLine(IF HasCap(wrap.model, CapView)
                       THEN wrap.model.id ELSE View(wrap.model))]_vars

\* The step in which Wrap decides on canvas mode and, in canvas mode, makes
\* the server.
WrapDecides == wrap.pc = "call" /\ wrap'.pc # "call"

\* C30: Wrap enables canvas mode only when OPENCODE_CANVAS or CANVAS_ID is
\* set: with both unset it returns the given model and touches neither the
\* socket path nor the listener; otherwise the id it makes the server for is
\* CANVAS_ID when that is not empty and the argument when it is; when server
\* creation fails it returns the given model and no accept loop ever runs; when
\* it succeeds the adapter is registered before the accept loop starts, so no
\* handler ever works on a nil model.
C30_Wrap ==
    /\ [][WrapDecides =>
            /\ ~CanvasMode(wrap.env) =>
                  /\ wrap'.ret = "model"
                  /\ file' = file /\ listener' = listener /\ sockfile' = sockfile
                  /\ model' = model /\ accept' = accept
            /\ CanvasMode(wrap.env) =>
                  /\ wrap'.id = IF wrap.env.CANVAS_ID # "" THEN wrap.env.CANVAS_ID
                                ELSE wrap.canvasID
                  /\ (wrap'.ret = "model") <=> (listener' # "open")
                  /\ (wrap'.ret = "model") => (file' # SockOf(1))]_vars
    /\ [](wrap.ret = "model" =>
            /\ accept = "off" /\ model = Nil /\ listener = "closed"
            /\ \A c \in Conns : task[c] = "none")
    /\ [](accept # "off" => model = Adapter)
    /\ [](wrap.ret = "adapter" => (model = Adapter /\ accept # "off"))
    /\ [](\A c \in Conns : task[c] = "call" => snap[c].model = Adapter)

\* C30 witness: with only OPENCODE_CANVAS set, Wrap made the server for the
\* argument id and returned the adapter, and a request was answered by it.
C30_Witness ==
    /\ wrap.ret = "adapter"
    /\ wrap.env.CANVAS_ID = ""
    /\ wrap.id = "a"
    /\ model = Adapter
    /\ \E c \in Callers : Len(out[c]) > 0 /\ out[c][1].line.type = "state"

\* C23: a task holds the lock only between RLock and the copies, never inside
\* a capability or the close callback; the lock is always released again
\* whatever model code does, and whenever no task is between RLock and RUnlock
\* a SetModel and an OnClose call can take the lock, also while handlers are
\* inside model code.
C23_LockOnlyForCopy ==
    /\ [](\A c \in Conns : c \in mu => task[c] = "snap")
    /\ [](\A c \in Conns : task[c] \in {"call", "panicked"} => c \notin mu)
    /\ []((proc = "up" /\ \A c \in Conns : task[c] # "snap")
            => (ENABLED SetModel(Full) /\ ENABLED OnClose(IF onClose = "nil" THEN "fn" ELSE "nil")))
    /\ \A c \in Conns : (c \in mu) ~> (c \notin mu \/ proc = "crashed")

\* C23 witness: while one handler is inside model code with its copy of the
\* model, and another task holds the read lock, SetModel has replaced the model.
C23_Witness ==
    \E c, d \in Conns :
        /\ task[c] = "call"
        /\ snap[c].model = Nil
        /\ model = Full
        /\ d \in mu

\* C24: whatever connection 1 does (its peer idle, or its handler inside
\* model code for ever), a connection that is made while the accept loop runs
\* is accepted, and every line sent on it is answered on it, unless model code
\* panics and takes the process down.
C24_NoMutualBlocking ==
    \A d \in Served :
        /\ (accept = "on" /\ peer[d] # "idle") ~> (task[d] # "none" \/ proc = "crashed")
        /\ \A k \in 1..MaxLines :
              (accept = "on" /\ Len(inq[d]) >= k)
                  ~> (Len(out[d]) >= k \/ proc = "crashed")

\* C24 witness: connection 1's request has been read and its handler is still
\* inside model code, and meanwhile another connection was accepted and its
\* request answered.
C24_Witness ==
    \E d \in Served :
        /\ task[1] = "call"
        /\ Len(out[1]) = 0
        /\ Len(out[d]) = 1
        /\ out[d][1].line.type = "state"

\* C25: a connection task returns, closing its connection, only in a step in
\* which its read fails (the peer is gone and every line it wrote was read),
\* and a read that can fail does end the task; so after a client call has
\* returned and closed its connection, the task the server runs for it ends
\* (or the process is gone); and a task that has returned writes nothing more.
C25_TaskEndsOnReadFailure ==
    /\ [][\A c \in Callers :
            /\ (task[c] # "closed" /\ task'[c] = "closed")
                  => (task[c] = "read" /\ peer[c] = "closed" /\ nread[c] = Len(inq[c])
                      /\ out'[c] = out[c])
            /\ task[c] = "closed" => (task'[c] = "closed" /\ out'[c] = out[c])]_vars
    /\ \A c \in Callers :
          /\ (task[c] = "read" /\ peer[c] = "closed" /\ nread[c] = Len(inq[c]))
                ~> (task[c] = "closed" \/ proc = "crashed")
          /\ (cpc[c] = "done" /\ task[c] # "none")
                ~> (task[c] = "closed" \/ proc = "crashed")

\* C25 witness: a GetState call got its answer and returned, and the server's
\* task for that connection has ended after writing that one response.
C25_Witness ==
    \E c \in Callers :
        /\ cpc[c] = "done"
        /\ res[c].ok
        /\ task[c] = "closed"
        /\ Len(out[c]) = 1
        /\ proc = "up"

\* The indexes of the names of directory d that end in ".sock" and exist.
SockEntries(d) ==
    {k \in 1..Len(EntryNames) : d[k] # NoEntry /\ HasSuffix(EntryNames[k], SockSuffix)}

\* C26: a finished listing reports exactly the existing entries whose name
\* ends in .sock, once each and in directory order, with the name without the
\* suffix as id; an entry is alive exactly when a server with a state provider
\* answered the ping, so a stale socket, a bound socket nobody accepts on and
\* a server whose model has no state provider are dead; only the paths of the
\* listed sockets are dialed, never a .pane file.
C26_Listing ==
    ls.stage = "done" =>
        /\ {ls.out[j].entry : j \in 1..Len(ls.out)} = SockEntries(ls.dir)
        /\ Len(ls.out) = Cardinality(SockEntries(ls.dir))
        /\ \A j \in 1..Len(ls.out) : \A j2 \in 1..Len(ls.out) :
              j < j2 => ls.out[j].entry < ls.out[j2].entry
        /\ \A j \in 1..Len(ls.out) :
              LET r == ls.out[j]
                  e == ls.dir[r.entry]
              IN /\ r.id \o SockSuffix = EntryNames[r.entry]
                 /\ (r.status = "alive") <=>
                       (e.at = "live" /\ HasCap(e.model, CapState) /\ r.oc = Ret)
                 /\ e.at \in {"stale", "bound"} => r.status = "dead"
                 /\ r.status \in {"alive", "dead"}
        /\ ls.dials = {DefaultSocketDir \o <<"/">> \o EntryNames[k] : k \in SockEntries(ls.dir)}
        /\ \A p \in ls.dials : ~HasSuffix(p, <<".", "pane">>)
        /\ (ls.text = "No active canvases") <=> (SockEntries(ls.dir) = {})

\* C26 witness: a listing of a directory with a .pane file, a stale socket
\* and the socket of a live server with a state provider has finished.
C26_Witness ==
    /\ ls.stage = "done"
    /\ ls.dir[2] = PlainFile
    /\ ls.dir[3] = StaleSock
    /\ ls.dir[4] = LiveSock(StateOnly)
    /\ ls.dir[1] = BoundSock
    /\ Len(ls.out) = 3
    /\ ls.out[3].status = "alive"
    /\ ls.out[2].status = "dead"

\* C27: on a started server whose registered model is nil, every handler that
\* finishes a get_state, get_view, send_key or send_input request writes error
\* not_supported and every handler that finishes a close request writes ack;
\* the task goes back to reading and the process, the accept loop and the
\* listener are as they were.
C27_NilModel ==
    [][\A c \in Callers :
        (HandlerStep(c) /\ snap[c].model = Nil /\ msg[c].type \in RequestTypes) =>
            /\ Wrote(c)
            /\ NewEntry(c).line =
                  IF msg[c].type = MsgClose THEN AckLine
                  ELSE ErrorLine("not_supported", MissingText(msg[c].type))
            /\ task'[c] = "read"
            /\ proc' = "up"
            /\ accept' = accept /\ listener' = listener]_vars

\* The payload of an envelope does not parse into the shape.
ParseFails(raw, shape) == raw # NoPayload /\ jsonUnmarshal_fails(raw, shape)

\* The response is ack, or the handler's error under the code of its request.
AckOrHandlerError(t, line) ==
    \/ line = AckLine
    \/ IsError(line, IF t = MsgSendKey THEN "key_error" ELSE "input_error")

\* C28: for send_key and send_input, a model with the handler has it called
\* once, with the zero key and rune or the zero text when the payload is absent
\* or does not parse into the expected shape, and the response is ack or
\* key_error/input_error, never parse_error; a model without the handler is
\* answered not_supported, with no call, whatever the payload.
C28_PayloadIgnored ==
    hc.stage = "out" =>
        LET rq == Unmarshal(hc.line).msg
            shape == ShapeOf(rq.type)
        IN IF HasCap(hc.model, RequiredCap(rq.type))
           THEN /\ hc.calls = 1
                /\ (rq.payload = NoPayload \/ ParseFails(rq.payload, shape))
                      => hc.args = ZeroStruct(shape)
                /\ AckOrHandlerError(rq.type, hc.resp)
                /\ ~IsError(hc.resp, "parse_error")
           ELSE /\ hc.calls = 0
                /\ hc.resp = ErrorLine("not_supported", MissingText(rq.type))

\* C29: bytes a peer wrote without a newline before it disconnected stay
\* where they are: what a task decodes and dispatches is always a complete
\* line, there is at most one response per line read, and the task that finds
\* such bytes at the end of the stream returns without a response, a decoded
\* envelope or a call into model code.
C29_UnterminatedDiscarded ==
    /\ [](\A c \in Callers :
            /\ Len(out[c]) <= nread[c]
            /\ nread[c] <= Len(inq[c])
            /\ task[c] \in {"snap", "call"} =>
                  (nread[c] >= 1 /\ msg[c] = Unmarshal(inq[c][nread[c]]).msg))
    /\ [][\A c \in Callers :
            (peer[c] = "closed" /\ tail[c] # <<>>) =>
                /\ tail'[c] = tail[c]
                /\ inq'[c] = inq[c]
                /\ (task[c] = "read" /\ nread[c] = Len(inq[c]) /\ task'[c] # "read") =>
                      (task'[c] = "closed" /\ out'[c] = out[c] /\ msg'[c] = msg[c]
                       /\ snap'[c] = snap[c])]_vars

\* C29 witness: after one answered line the peer wrote a whole get_state
\* request without its newline and disconnected; the task has returned and
\* the only response is the one to the first line.
C29_Witness ==
    \E c \in Callers :
        /\ task[c] = "closed"
        /\ tail[c] = <<Wire(MsgGetState, NoPayload)>>
        /\ Len(inq[c]) = 1
        /\ Len(out[c]) = 1
        /\ model = Full

====
